---- MODULE Spec2Model ----
(***************************************************************************)
(* A state-machine model of the harmonic audio engine                      *)
(* (src/src/audio_engine.cpp, src/src/coder_mode.cpp).                     *)
(*                                                                         *)
(* Samples are fixed-point integers: the float 1.0 is One units.  A block  *)
(* of n frames is a sequence of 2*n interleaved stereo samples.            *)
(*                                                                         *)
(* Threads: the device callback thread (data_callback), a thread calling   *)
(* load_track, a thread calling start()/stop(), stream consumers calling   *)
(* get_stream_buffer, and atomic control calls (set_muted,                 *)
(* enable_live_coding, trigger_sample).  A critical section that touches   *)
(* only the state its mutex protects and does not block is one step.       *)
(***************************************************************************)
EXTENDS Integers, Sequences, FiniteSets, TLC

VARIABLES
    is_playing,           \* std::atomic<bool>
    live_coding_enabled,  \* std::atomic<bool>
    muted,                \* std::atomic<bool>
    track_ended,          \* the "track ended" signal
    decoder_initialized,  \* bool, guarded by audio_mutex
    decoder,              \* ma_decoder: the file it reads and its read cursor (frames)
    current_track,        \* std::string
    device_started,       \* the ma_device is running (callbacks are delivered)
    audio_mutex,          \* owner of audio_mutex: "free", "callback" or "load_track"
    stream_queue,         \* std::deque<std::vector<float>>
    stream_buffer,        \* std::vector<float>: the residual of get_stream_buffer
    current_fft,          \* FFTData
    coder,                \* the CoderMode instance
    cb,                   \* the callback in flight (or the last one, when pc = "idle")
    lt,                   \* the load_track call in flight (or the last one)
    life,                 \* the start()/stop() call in flight (or the last one)
    gsb,                  \* per consumer: its get_stream_buffer call
    cb_count,             \* callbacks begun so far
    gsb_stats,            \* get_stream_buffer calls begun, frames asked and samples returned
    residual_of,          \* the consumer whose call left what stream_buffer holds
    fft_mutex,            \* owner of fft_mutex: "free" or "callback"
    fft_pc,               \* position of the calculate_fft call in flight
    fft_read,             \* what the last get_fft_data call returned
    call,                 \* the last direct call: operation, arguments, state before, results
    dj,                   \* the DJCueSystem object
    twin,                 \* two runs of the engine, fed the same calls but for set_muted
    lk                    \* the engine's mutexes and the threads that take them

vars == <<is_playing, live_coding_enabled, muted, track_ended, decoder_initialized,
          decoder, current_track, device_started, audio_mutex, stream_queue,
          stream_buffer, current_fft, coder, cb, lt, life, gsb, cb_count, gsb_stats,
          residual_of, fft_mutex, fft_pc, fft_read, call, dj, twin, lk>>

engine_vars == <<is_playing, live_coding_enabled, muted, track_ended, decoder_initialized,
                 decoder, current_track, device_started, audio_mutex>>

----------------------------------------------------------------------------
(* Bounds of the model *)

\* callbacks delivered in the engine specification
MaxCallbacks == 3
\* callbacks delivered in the stream specification
MaxStreamCallbacks == 2
\* get_stream_buffer calls made in the stream specification
MaxGets == 2
\* callbacks delivered in the queue specification (enough to overflow the queue)
MaxQueueCallbacks == 12
\* get_stream_buffer calls made in the queue specification
MaxQueueGets == 2
\* waits of one get_stream_buffer call that are counted (the count saturates)
MaxWaitsCounted == 2
\* simultaneously active voices the control thread will trigger
MaxVoices == 1
\* callbacks delivered in the FFT specification
MaxFftCallbacks == 3
\* voices active at once in the CoderMode specification
MaxCoderVoices == 2
\* events one sequence is given in the CoderMode specification
MaxEvents == 2
\* the furthest a sequence cursor is driven in the CoderMode specification
MaxCursor == 2
\* get_stream_buffer calls in the drain specification
MaxDrainGets == 3
\* samples the capture buffer is let grow to in the recording specification
MaxRecorded == 4
\* callbacks delivered in the consumers specification
MaxSharedCallbacks == 2
\* get_stream_buffer calls made, by both consumers together, in that specification
MaxSharedGets == 3

(* Program constants *)

\* the float 1.0 of the clamp, in fixed-point units
One == 2
\* capacity of the stream queue
QueueCapacity == 10

----------------------------------------------------------------------------
(* Helpers *)

Min(a, b) == IF a < b THEN a ELSE b
Max(a, b) == IF a > b THEN a ELSE b

Zeros(n) == [i \in 1..n |-> 0]

IsSilent(block) == \A i \in 1..Len(block) : block[i] = 0

\* the first n elements / all but the first n elements of s
Take(s, n) == SubSeq(s, 1, Min(n, Len(s)))
Drop(s, n) == SubSeq(s, Min(n, Len(s)) + 1, Len(s))

RECURSIVE SortedSeq(_)
SortedSeq(S) ==
    IF S = {} THEN <<>>
    ELSE LET m == CHOOSE x \in S : \A y \in S : x <= y
         IN <<m>> \o SortedSeq(S \ {m})

----------------------------------------------------------------------------
(* The environment: the files load_track can be given.  A file is its      *)
(* decoded interleaved stereo PCM; a path not in Files cannot be decoded.  *)
(* Files a (3 frames) and b (2 frames) are short, so that a track ends     *)
(* within a few callbacks; file s gives every frame its own sample value,  *)
(* so that the order of the chunks in the stream queue is visible.         *)

\* frames carried by the long file the stream specification plays
StreamFileFrames == 36

Files == [ a |-> <<1, 1, 1, 1, 1, 1>>,
           b |-> <<1, 1, 1, 1>>,
           s |-> [i \in 1..(2 * StreamFileFrames) |-> (i + 1) \div 2] ]
Paths == {"a", "b", "missing"}
NoDecoder == [track |-> "none", pos |-> 0]

FileFrames(path) == Len(Files[path]) \div 2

----------------------------------------------------------------------------
(* CoderMode *)

\* the bank seeded by the constructor: ids 0..4, scaled to a few frames each
InitBank == (0 :> <<1, 1>>) @@ (1 :> <<1, -1>>) @@ (2 :> <<1, 1>>)
            @@ (3 :> <<1, -1, 1>>) @@ (4 :> <<-1, 1>>)

CoderInit ==
    [ samples |-> InitBank,
      active_samples |-> <<>>,
      sequences |-> <<>>,
      current_loop |-> [start_frame |-> 0, end_frame |-> 0, active |-> FALSE],
      playback_frame |-> 0,
      recording |-> FALSE,
      record_start_frame |-> 0,
      recorded_buffer |-> <<>> ]

\* mutant: the voice is spawned without looking the id up in the bank
trigger_sample_Unchecked(c, id, volume) ==
    [c EXCEPT !.active_samples =
         Append(@, [sample_id |-> id, position |-> 0, volume |-> volume])]

trigger_sample(c, id, volume) ==
    IF id \in DOMAIN c.samples
    THEN [c EXCEPT !.active_samples =
              Append(@, [sample_id |-> id, position |-> 0, volume |-> volume])]
    ELSE c

\* mutant: a voice overwrites what the voices before it have mixed
MixInto_Overwrite(acc, value) == value

\* output[i * 2] += value; output[i * 2 + 1] += value;
MixInto(acc, value) == acc + value

\* mutant: a voice is erased only once its position is past the sample's length
VoiceFinished_Past(position, size) == position > size

\* if (it->position >= sample.data.size()) it = active_samples.erase(it);
VoiceFinished(position, size) == position >= size

\* the voice loop of process: mixes voices k.. into out; samples[id] on an id
\* that is not in the bank default-inserts an empty sample (std::map::operator[])
RECURSIVE MixVoices(_, _, _, _, _)
MixVoices(voices, k, bank, out, n) ==
    IF k > Len(voices)
    THEN [kept |-> <<>>, bank |-> bank, out |-> out]
    ELSE LET v     == voices[k]
             bank1 == IF v.sample_id \in DOMAIN bank THEN bank
                      ELSE bank @@ (v.sample_id :> <<>>)
             data  == bank1[v.sample_id]
             m     == IF v.position < Len(data) THEN Min(n, Len(data) - v.position) ELSE 0
             out1  == [j \in 1..(2 * n) |->
                          IF (j - 1) \div 2 < m
                          THEN MixInto(out[j], data[v.position + ((j - 1) \div 2) + 1] * v.volume)
                          ELSE out[j]]
             v1    == [v EXCEPT !.position = v.position + m]
             rest  == MixVoices(voices, k + 1, bank1, out1, n)
         IN [kept |-> (IF VoiceFinished(v1.position, Len(data)) THEN <<>> ELSE <<v1>>)
                          \o rest.kept,
             bank |-> rest.bank,
             out  |-> rest.out]

\* the voices one sequence spawns for the window [current_frame, current_frame + n)
RECURSIVE SpawnedBy(_, _, _, _)
SpawnedBy(events, k, from, n) ==
    IF k > Len(events) THEN <<>>
    ELSE (IF events[k].frame_offset >= from /\ events[k].frame_offset < from + n
          THEN <<[sample_id |-> events[k].sample_id, position |-> 0,
                  volume |-> events[k].volume]>>
          ELSE <<>>) \o SpawnedBy(events, k + 1, from, n)

\* mutant: the cursor of a playing sequence stays where it is
AdvanceSequence_Stays(seq, n) == seq

AdvanceSequence(seq, n) ==
    IF ~seq.playing THEN seq
    ELSE LET f == seq.current_frame + n
         IN [seq EXCEPT !.current_frame =
                IF seq.length_frames > 0 /\ f >= seq.length_frames THEN 0 ELSE f]

\* the sequence loop of process, over the sequence ids in ascending order
RECURSIVE SpawnAll(_, _, _, _)
SpawnAll(seqs, ids, k, n) ==
    IF k > Len(ids) THEN <<>>
    ELSE (IF seqs[ids[k]].playing
          THEN SpawnedBy(seqs[ids[k]].events, 1, seqs[ids[k]].current_frame, n)
          ELSE <<>>) \o SpawnAll(seqs, ids, k + 1, n)

\* mutant: only the upper bound is enforced
ClampSample_UpperOnly(x) == Min(One, x)

\* output[i] = std::max(-1.0f, std::min(1.0f, output[i]));
ClampSample(x) == Max(-One, Min(One, x))

\* CoderMode::process(output, frame_count): the new CoderMode state, the block
\* as mixed (what is recorded) and the block as clamped (what is returned)
process(c, n) ==
    LET mixed  == MixVoices(c.active_samples, 1, c.samples, Zeros(2 * n), n)
        ids    == SortedSeq(DOMAIN c.sequences)
        voices == mixed.kept \o SpawnAll(c.sequences, ids, 1, n)
        seqs   == [s \in DOMAIN c.sequences |-> AdvanceSequence(c.sequences[s], n)]
        pf     == IF c.current_loop.active
                  THEN (IF c.playback_frame + n >= c.current_loop.end_frame
                        THEN c.current_loop.start_frame
                        ELSE c.playback_frame + n)
                  ELSE c.playback_frame
        rec    == IF c.recording THEN c.recorded_buffer \o mixed.out
                  ELSE c.recorded_buffer
    IN [ coder |-> [c EXCEPT !.samples = mixed.bank,
                             !.active_samples = voices,
                             !.sequences = seqs,
                             !.playback_frame = pf,
                             !.recorded_buffer = rec],
         mixed |-> mixed.out,
         out |-> [j \in 1..(2 * n) |-> ClampSample(mixed.out[j])] ]

\* mutant: starting a recording keeps what the last one captured
set_recording_KeepBuffer(c, record) ==
    IF record
    THEN [c EXCEPT !.recording = TRUE, !.record_start_frame = c.playback_frame]
    ELSE [c EXCEPT !.recording = FALSE]

\* CoderMode::set_recording
set_recording(c, record) ==
    IF record
    THEN [c EXCEPT !.recording = TRUE, !.record_start_frame = c.playback_frame,
                   !.recorded_buffer = <<>>]
    ELSE [c EXCEPT !.recording = FALSE]

\* CoderMode::get_recording: a copy of the capture buffer
get_recording(c) == c.recorded_buffer

\* CoderMode::set_loop
set_loop(c, start_frame, end_frame) ==
    [c EXCEPT !.current_loop = [start_frame |-> start_frame, end_frame |-> end_frame,
                                active |-> TRUE]]

\* CoderMode::toggle_loop
toggle_loop(c) == [c EXCEPT !.current_loop = [@ EXCEPT !.active = ~@]]

\* mutant: an id that is in the bank keeps its data
load_sample_KeepsOld(c, id, data) ==
    IF id \in DOMAIN c.samples THEN c
    ELSE [c EXCEPT !.samples = (id :> data) @@ c.samples]

\* CoderMode::load_sample: samples[id] = sample
load_sample(c, id, data) == [c EXCEPT !.samples = (id :> data) @@ c.samples]

\* Sequence(): length_frames(0), playing(false), current_frame(0)
NewSequence == [events |-> <<>>, length_frames |-> 0, playing |-> FALSE, current_frame |-> 0]

SortedByOffset(events) ==
    \A i \in 1..(Len(events) - 1) : events[i].frame_offset <= events[i + 1].frame_offset

\* std::sort by frame_offset: it is not a stable sort, so events of equal offset
\* may come out in any order
SortOutcomes(events) ==
    { e \in { [i \in 1..Len(events) |-> events[q[i]]] : q \in Permutations(1..Len(events)) } :
        SortedByOffset(e) }

\* mutant: the event is appended and the events are not sorted
add_sequence_event_Unsorted(c, sequence_id, frame_offset, sample_id, volume) ==
    LET seqs == IF sequence_id \in DOMAIN c.sequences THEN c.sequences
                ELSE c.sequences @@ (sequence_id :> NewSequence)
        event == [frame_offset |-> frame_offset, sample_id |-> sample_id, volume |-> volume]
    IN { [c EXCEPT !.sequences = [seqs EXCEPT ![sequence_id].events = Append(@, event)]] }

\* CoderMode::add_sequence_event: the states it can leave
add_sequence_event(c, sequence_id, frame_offset, sample_id, volume) ==
    LET seqs == IF sequence_id \in DOMAIN c.sequences THEN c.sequences
                ELSE c.sequences @@ (sequence_id :> NewSequence)
        event == [frame_offset |-> frame_offset, sample_id |-> sample_id, volume |-> volume]
    IN { [c EXCEPT !.sequences = [seqs EXCEPT ![sequence_id].events = e]] :
           e \in SortOutcomes(Append(seqs[sequence_id].events, event)) }

\* mutant: the sequence is started from where its cursor is
play_sequence_KeepCursor(c, sequence_id) ==
    IF sequence_id \in DOMAIN c.sequences
    THEN [c EXCEPT !.sequences[sequence_id].playing = TRUE]
    ELSE c

play_sequence(c, sequence_id) ==
    IF sequence_id \in DOMAIN c.sequences
    THEN [c EXCEPT !.sequences[sequence_id].playing = TRUE,
                   !.sequences[sequence_id].current_frame = 0]
    ELSE c

stop_sequence(c, sequence_id) ==
    IF sequence_id \in DOMAIN c.sequences
    THEN [c EXCEPT !.sequences[sequence_id].playing = FALSE]
    ELSE c

----------------------------------------------------------------------------
(* AudioEngine: the pure parts of the callback *)

\* mutant: the decoder is tried before the live-coding flag
SelectSource_DecoderFirst(live, dec_init, playing) ==
    IF dec_init /\ playing THEN "DECODE"
    ELSE IF live THEN "CODER"
    ELSE "SILENCE"

\* mutant: with live coding off and nothing to decode, the block still comes
\* from CoderMode
SelectSource_CoderFallback(live, dec_init, playing) ==
    IF live THEN "CODER"
    ELSE IF dec_init /\ playing THEN "DECODE"
    ELSE "CODER"

\* the if / else-if / else chain of data_callback
SelectSource(live, dec_init, playing) ==
    IF live THEN "CODER"
    ELSE IF dec_init /\ playing THEN "DECODE"
    ELSE "SILENCE"

\* mutant: a read that hits the end of the file moves on to the next file
DecoderRead_AutoAdvance(dec, n) ==
    LET left == IF dec.track \in DOMAIN Files
                THEN Max(0, FileFrames(dec.track) - dec.pos) ELSE 0
        k    == Min(n, left)
    IN [ frames_read |-> k,
         samples |-> IF k = 0 THEN <<>>
                     ELSE SubSeq(Files[dec.track], 2 * dec.pos + 1, 2 * (dec.pos + k)),
         decoder |-> IF k < n THEN [track |-> "b", pos |-> 0]
                     ELSE [dec EXCEPT !.pos = dec.pos + k] ]

\* ma_decoder_read_pcm_frames(&decoder, out, n, &frames_read): the frames left in
\* the file from the read cursor, at most n of them
DecoderRead(dec, n) ==
    LET left == IF dec.track \in DOMAIN Files
                THEN Max(0, FileFrames(dec.track) - dec.pos) ELSE 0
        k    == Min(n, left)
    IN [ frames_read |-> k,
         samples |-> IF k = 0 THEN <<>>
                     ELSE SubSeq(Files[dec.track], 2 * dec.pos + 1, 2 * (dec.pos + k)),
         decoder |-> [dec EXCEPT !.pos = dec.pos + k] ]

\* the DECODE branch: the block read, zero-filled from frames_read*2 to n*2
DecodeBlock(rd, n) == rd.samples \o Zeros(2 * n - 2 * rd.frames_read)

\* mutant: the signal is raised only by a read that returns no frame at all
TrackEndedAfterRead_EmptyOnly(ended, frames_read, n) ==
    IF frames_read = 0 THEN TRUE ELSE ended

\* the DECODE branch: the track-ended signal after a read of frames_read frames
TrackEndedAfterRead(ended, frames_read, n) ==
    IF frames_read < n THEN TRUE ELSE ended

\* mutant: mute is applied before the block is captured and analysed
CallbackSteps_MuteFirst(state) ==
    IF state = "SILENCE" THEN <<"publish", "fft", "return">>
    ELSE <<"mute", "publish", "fft", "return">>

\* mutant: the SILENCE branch returns without publishing its block
CallbackSteps_SilenceUnpublished(state) ==
    IF state = "SILENCE" THEN <<"fft", "return">>
    ELSE <<"publish", "fft", "mute", "return">>

\* what the callback body does after it has filled the block, in order:
\* the SILENCE branch publishes, analyses and returns early; the other two
\* publish, analyse, apply mute and return (the return unlocks audio_mutex)
\* mutant: mute is applied after the block is captured but before it is analysed
CallbackSteps_MuteBeforeFft(state) ==
    IF state = "SILENCE" THEN <<"publish", "fft", "return">>
    ELSE <<"publish", "mute", "fft", "return">>

CallbackSteps(state) ==
    IF state = "SILENCE" THEN <<"publish", "fft", "return">>
    ELSE <<"publish", "fft", "mute", "return">>

\* mutant: on overflow the newest chunk is dropped instead of the oldest
add_to_stream_queue_DropNewest(q, chunk) ==
    LET q1 == Append(q, chunk)
    IN IF Len(q1) > QueueCapacity THEN SubSeq(q1, 1, QueueCapacity) ELSE q1

\* add_to_stream_queue: push_back, then pop_front when over capacity
add_to_stream_queue(q, chunk) ==
    LET q1 == Append(q, chunk)
    IN IF Len(q1) > QueueCapacity THEN Tail(q1) ELSE q1

\* calculate_fft: the stereo block is mixed down to mono, (L + R) * 0.5, and the
\* snapshot is the analysis of that mono block.  The mono samples are kept in
\* half units (L + R); the snapshot records the block it analyses.
calculate_fft(block, n) ==
    [ mono |-> [i \in 1..n |-> block[2 * i - 1] + block[2 * i]],
      silent |-> IsSilent(block) ]

\* the mute loop of data_callback
ApplyMute(out, mute) == IF mute THEN Zeros(Len(out)) ELSE out

----------------------------------------------------------------------------
(* Initial state: the state the constructor leaves *)

\* no load_track call in flight
LtIdle == [pc |-> "idle", path |-> "", before |-> <<>>]

CbIdle ==
    [ todo |-> <<>>, frames |-> 0, state |-> "NONE", out |-> <<>>, produced |-> <<>>,
      frames_read |-> 0, pushes |-> 0, ffts |-> 0, mute_applied |-> FALSE ]

Consumers == {"c1", "c2"}

\* FFTData before the first calculate_fft, and no get_fft_data call made yet
InitialFft == [mono |-> <<>>, silent |-> TRUE]
FftNotRead == [done |-> FALSE, data |-> InitialFft]

\* no direct CoderMode call made yet
NoCall == [op |-> "none"]

(***************************************************************************)
(* DJCueSystem (dj_cue_system.cpp).  Durations are held in half seconds,   *)
(* so that the product with the sample rate is not always whole and the    *)
(* cast to a frame count has something to cut off.  The object is built    *)
(* for a sample rate of 1 frame per second.                                *)
(***************************************************************************)
\* CuePoint(): position_frames(0), fade_in_seconds(2.0f), fade_out_seconds(2.0f), active(false)
NoCue == [ track_path |-> "", position_frames |-> 0, fade_in_seconds |-> 4,
           fade_out_seconds |-> 4, active |-> FALSE ]

\* HotCue(): position(0), active(false)
DefaultHotCue == [ position |-> 0, label |-> "", active |-> FALSE ]

\* DJCueSystem::DJCueSystem
DjInit ==
    [ sample_rate |-> 1,
      next_cue |-> NoCue,
      crossfade_duration |-> 6,
      current_bpm |-> 120,
      is_crossfading |-> FALSE,
      crossfade_progress |-> 0,
      current_fade_frames |-> 0,
      hot_cues |-> [ i \in 0..7 |-> DefaultHotCue ] ]

\* the range of uint64_t, scaled: arithmetic on frame positions wraps at it
UintModulus == 16

\* (uint64_t)(seconds * sample_rate): the product, cut to a whole frame count
FadeFrames(half_seconds, sample_rate) == ((half_seconds * sample_rate) \div 2) % UintModulus

\* DJCueSystem::cue_next_track
cue_next_track(d, track_path, fade_in) ==
    [d EXCEPT !.next_cue = [@ EXCEPT !.track_path = track_path,
                                     !.position_frames = 0,
                                     !.fade_in_seconds = fade_in,
                                     !.active = TRUE]]

\* mutant: the crossfade is armed whether or not a cue is pending
trigger_crossfade_Unguarded(d) ==
    [d EXCEPT !.is_crossfading = TRUE,
              !.crossfade_progress = 0,
              !.current_fade_frames = FadeFrames(d.crossfade_duration, d.sample_rate)]

\* DJCueSystem::trigger_crossfade
trigger_crossfade(d) ==
    IF d.next_cue.active
    THEN [d EXCEPT !.is_crossfading = TRUE,
                   !.crossfade_progress = 0,
                   !.current_fade_frames = FadeFrames(d.crossfade_duration, d.sample_rate)]
    ELSE d

\* mutant: a new duration also changes the length of the crossfade under way
set_crossfade_duration_Rearms(d, half_seconds) ==
    [d EXCEPT !.crossfade_duration = half_seconds,
              !.current_fade_frames = FadeFrames(half_seconds, d.sample_rate)]

\* DJCueSystem::set_crossfade_duration
set_crossfade_duration(d, half_seconds) == [d EXCEPT !.crossfade_duration = half_seconds]

\* DJCueSystem::should_auto_crossfade: the subtraction is unsigned
should_auto_crossfade(d, current_position, track_length) ==
    IF ~d.next_cue.active \/ d.is_crossfading
    THEN FALSE
    ELSE LET crossfade_start ==
                 (track_length - FadeFrames(d.crossfade_duration, d.sample_rate)) % UintModulus
         IN  current_position >= crossfade_start

\* progress = min(1, max(0, crossfade_progress / current_fade_frames)) as a
\* fraction; 0 / 0 is a NaN, which std::max(0.0f, NaN) replaces by 0
AppliedProgress(crossfade_progress, fade_frames) ==
    IF fade_frames = 0
    THEN IF crossfade_progress = 0 THEN [num |-> 0, den |-> 1] ELSE [num |-> 1, den |-> 1]
    ELSE [num |-> Min(crossfade_progress, fade_frames), den |-> fade_frames]

\* current * cos(progress * pi / 2) + next * sin(progress * pi / 2): at
\* progress 0 the factors are 1 and 0; any other mix is kept as a term
Crossfaded(current, next, progress) ==
    IF progress.num = 0 THEN current
    ELSE [current |-> current, next |-> next, progress |-> progress]

\* the loop of process_crossfade from frame i on; r holds the object, the
\* block, current_pos and the progress values applied so far
RECURSIVE CrossfadeLoop(_, _, _, _)
CrossfadeLoop(r, next_audio, i, frame_count) ==
    IF i >= frame_count THEN r
    ELSE LET progress == AppliedProgress(r.dj.crossfade_progress, r.dj.current_fade_frames)
             audio == [r.current_audio EXCEPT
                          ![2 * i + 1] = Crossfaded(@, next_audio[2 * i + 1], progress),
                          ![2 * i + 2] = Crossfaded(@, next_audio[2 * i + 2], progress)]
             counted == r.dj.crossfade_progress + 1
             applied == Append(r.applied, progress)
         IN  IF counted >= r.dj.current_fade_frames
             THEN [ dj |-> [r.dj EXCEPT !.crossfade_progress = counted,
                                        !.is_crossfading = FALSE,
                                        !.next_cue = [@ EXCEPT !.active = FALSE]],
                    current_audio |-> audio, current_pos |-> 0,
                    applied |-> applied, completed |-> TRUE ]
             ELSE CrossfadeLoop([r EXCEPT !.dj = [@ EXCEPT !.crossfade_progress = counted],
                                          !.current_audio = audio,
                                          !.applied = applied],
                                next_audio, i + 1, frame_count)

\* mutant: the crossfade ends without consuming the cue
process_crossfade_KeepsCue(d, current_audio, next_audio, frame_count, current_pos) ==
    LET r == CrossfadeLoop([ dj |-> d, current_audio |-> current_audio,
                             current_pos |-> current_pos, applied |-> <<>>,
                             completed |-> FALSE ], next_audio, 0, frame_count)
    IN  IF ~d.is_crossfading
        THEN [ dj |-> d, current_audio |-> current_audio, current_pos |-> current_pos,
               applied |-> <<>>, completed |-> FALSE ]
        ELSE [r EXCEPT !.dj = [@ EXCEPT !.next_cue = d.next_cue], !.current_pos = current_pos]

\* DJCueSystem::process_crossfade
process_crossfade(d, current_audio, next_audio, frame_count, current_pos) ==
    IF ~d.is_crossfading
    THEN [ dj |-> d, current_audio |-> current_audio, current_pos |-> current_pos,
           applied |-> <<>>, completed |-> FALSE ]
    ELSE CrossfadeLoop([ dj |-> d, current_audio |-> current_audio,
                         current_pos |-> current_pos, applied |-> <<>>,
                         completed |-> FALSE ], next_audio, 0, frame_count)

\* DJCueSystem::set_bpm
set_bpm(d, bpm) == [d EXCEPT !.current_bpm = bpm]

\* DJCueSystem::calculate_mix_point: 32 beats of 60 / current_bpm seconds, in frames
calculate_mix_point(d, next_track_bpm) ==
    IF d.current_bpm <= 0 \/ next_track_bpm <= 0
    THEN 0
    ELSE ((60 * 32 * d.sample_rate) \div d.current_bpm) % UintModulus

\* DJCueSystem::is_crossfading_active
is_crossfading_active(d) == d.is_crossfading

\* DJCueSystem::clear_cue
clear_cue(d) == [d EXCEPT !.next_cue = [@ EXCEPT !.active = FALSE]]

\* mutant: the slot index is not checked against the upper end
set_hot_cue_UpperUnchecked(d, slot, position, label) ==
    IF slot >= 0
    THEN [d EXCEPT !.hot_cues =
             [ i \in 0..7 |->
                 IF i = slot % 8
                 THEN [ position |-> position, label |-> label, active |-> TRUE ]
                 ELSE d.hot_cues[i] ]]
    ELSE d

\* DJCueSystem::set_hot_cue
set_hot_cue(d, slot, position, label) ==
    IF slot >= 0 /\ slot < 8
    THEN [d EXCEPT !.hot_cues[slot] =
             [ position |-> position, label |-> label, active |-> TRUE ]]
    ELSE d

\* DJCueSystem::get_hot_cue
get_hot_cue(d, slot) ==
    IF slot >= 0 /\ slot < 8 THEN d.hot_cues[slot] ELSE DefaultHotCue

\* mutant: clearing one slot deactivates every slot
clear_hot_cue_All(d, slot) ==
    IF slot >= 0 /\ slot < 8
    THEN [d EXCEPT !.hot_cues = [ i \in 0..7 |-> [@[i] EXCEPT !.active = FALSE] ]]
    ELSE d

\* DJCueSystem::clear_hot_cue
clear_hot_cue(d, slot) ==
    IF slot >= 0 /\ slot < 8
    THEN [d EXCEPT !.hot_cues[slot] = [@ EXCEPT !.active = FALSE]]
    ELSE d

\* no get_stream_buffer call in flight
GsbIdle == [ pc |-> "idle", frames |-> 0, result |-> <<>>, waits |-> 0, padding |-> 0 ]

\* one run of the engine, as the state a second run is compared with
RunInit ==
    [ is_playing |-> FALSE, live_coding_enabled |-> FALSE, muted |-> FALSE,
      track_ended |-> FALSE, decoder_initialized |-> FALSE, decoder |-> NoDecoder,
      stream_queue |-> <<>>, stream_buffer |-> <<>>, current_fft |-> InitialFft,
      coder |-> CoderInit, cb |-> CbIdle, gsb |-> GsbIdle,
      callbacks |-> 0, gets |-> 0 ]

TwinInit == <<RunInit, RunInit>>

\* the mutexes of AudioEngine and of CoderMode
Mutexes == {"audio_mutex", "coder_mutex", "stream_mutex", "fft_mutex"}

\* the threads that take them: the device's callback thread, two consumers
\* of get_stream_buffer, a get_fft_data reader, a load_track caller and a
\* thread making CoderMode control calls
Threads == {"callback", "consumer1", "consumer2", "reader", "loader", "control"}

\* no mutex is held and every thread is outside its call
LkInit ==
    [ owner |-> [m \in Mutexes |-> "free"],
      pc    |-> [t \in Threads |-> "idle"],
      todo  |-> [t \in Threads |-> <<>>] ]

Init ==
    /\ is_playing = FALSE
    /\ live_coding_enabled = FALSE
    /\ muted = FALSE
    /\ track_ended = FALSE
    /\ decoder_initialized = FALSE
    /\ decoder = NoDecoder
    /\ current_track = ""
    /\ device_started = FALSE
    /\ audio_mutex = "free"
    /\ stream_queue = <<>>
    /\ stream_buffer = <<>>
    /\ current_fft = InitialFft
    /\ coder = CoderInit
    /\ cb = CbIdle
    /\ lt = LtIdle
    /\ life = [pc |-> "idle", threw |-> FALSE]
    /\ gsb = [c \in Consumers |-> GsbIdle]
    /\ cb_count = 0
    /\ gsb_stats = [calls |-> 0, frames |-> 0, samples |-> 0]
    /\ residual_of = "none"
    /\ fft_mutex = "free"
    /\ fft_pc = "idle"
    /\ fft_read = FftNotRead
    /\ call = NoCall
    /\ dj = DjInit
    /\ twin = TwinInit
    /\ lk = LkInit

----------------------------------------------------------------------------
(* AudioEngine::data_callback *)

CbRunning == cb.todo # <<>>
CbAt(step) == CbRunning /\ Head(cb.todo) = step

\* the lock_guard of data_callback: the callback enters its body when it gets
\* audio_mutex
CallbackLock(owner) == owner = "free"

\* a step of the body is done
CbAdvance(c) == [c EXCEPT !.todo = Tail(c.todo)]

\* the callback is invoked with n frames, locks audio_mutex, selects the source
\* and fills the block
CbBegin(n, limit) ==
    /\ device_started
    /\ ~CbRunning
    /\ CallbackLock(audio_mutex)
    /\ cb_count < limit
    /\ cb_count' = cb_count + 1
    /\ audio_mutex' = "callback"
    /\ LET state == SelectSource(live_coding_enabled, decoder_initialized, is_playing)
           fresh == [CbIdle EXCEPT !.todo = CallbackSteps(state), !.frames = n,
                                   !.state = state]
       IN \/ /\ state = "CODER"
             /\ LET r == process(coder, n)
                IN /\ coder' = r.coder
                   /\ cb' = [fresh EXCEPT !.out = r.out, !.produced = r.out]
             /\ UNCHANGED <<decoder, track_ended>>
          \/ /\ state = "DECODE"
             /\ LET rd == DecoderRead(decoder, n)
                    blk == DecodeBlock(rd, n)
                IN /\ decoder' = rd.decoder
                   /\ track_ended' = TrackEndedAfterRead(track_ended, rd.frames_read, n)
                   /\ cb' = [fresh EXCEPT !.out = blk, !.produced = blk,
                                          !.frames_read = rd.frames_read]
             /\ UNCHANGED coder
          \/ /\ state = "SILENCE"
             /\ cb' = [fresh EXCEPT !.out = Zeros(2 * n), !.produced = Zeros(2 * n)]
             /\ UNCHANGED <<coder, decoder, track_ended>>
    /\ UNCHANGED <<is_playing, live_coding_enabled, muted, decoder_initialized,
                   current_track, device_started, stream_queue, stream_buffer,
                   current_fft, lt, life, gsb, gsb_stats,
                   residual_of, fft_mutex, fft_pc, fft_read, call, dj, twin, lk>>

\* std::vector<float> stream_data(out, out + frame_count * 2);
\* engine->add_to_stream_queue(stream_data);
CbPublish ==
    /\ CbAt("publish")
    /\ stream_queue' = add_to_stream_queue(stream_queue, cb.out)
    /\ cb' = [CbAdvance(cb) EXCEPT !.pushes = cb.pushes + 1]
    /\ UNCHANGED <<is_playing, live_coding_enabled, muted, track_ended,
                   decoder_initialized, decoder, current_track, device_started,
                   audio_mutex, stream_buffer, current_fft, coder, lt, life, gsb, cb_count, gsb_stats,
                   residual_of, fft_mutex, fft_pc, fft_read, call, dj, twin, lk>>

\* engine->calculate_fft(out, frame_count); in the SILENCE branch the callback
\* returns after it
CbFft ==
    /\ CbAt("fft")
    /\ fft_mutex = "free"
    /\ current_fft' = calculate_fft(cb.out, cb.frames)
    /\ cb' = [CbAdvance(cb) EXCEPT !.ffts = cb.ffts + 1]
    /\ UNCHANGED <<is_playing, live_coding_enabled, muted, track_ended,
                   decoder_initialized, decoder, current_track, device_started,
                   audio_mutex, stream_queue, stream_buffer, coder, lt, life, gsb, cb_count, gsb_stats,
                   residual_of, fft_mutex, fft_pc, fft_read, call, dj, twin, lk>>

\* calculate_fft step by step, as a thread calling get_fft_data can meet it:
\* the callback takes fft_mutex, ...
CbFftLock ==
    /\ CbAt("fft")
    /\ fft_pc = "idle"
    /\ fft_mutex = "free"
    /\ fft_mutex' = "callback"
    /\ fft_pc' = "magnitudes"
    /\ UNCHANGED <<is_playing, live_coding_enabled, muted, track_ended,
                   decoder_initialized, decoder, current_track, device_started,
                   audio_mutex, stream_queue, stream_buffer, current_fft, coder, cb, lt, life,
                   gsb, cb_count, gsb_stats, residual_of, fft_read, call, dj, twin, lk>>

\* ... writes current_fft.magnitudes, the analysis of the mono block, ...
CbFftMagnitudes ==
    /\ fft_pc = "magnitudes"
    /\ current_fft' = [current_fft EXCEPT !.mono = calculate_fft(cb.out, cb.frames).mono]
    /\ fft_pc' = "bands"
    /\ UNCHANGED <<is_playing, live_coding_enabled, muted, track_ended,
                   decoder_initialized, decoder, current_track, device_started,
                   audio_mutex, stream_queue, stream_buffer, coder, cb, lt, life,
                   gsb, cb_count, gsb_stats, residual_of, fft_mutex, fft_read, call, dj, twin, lk>>

\* ... writes bass, mid, treble and energy, and releases fft_mutex on return
CbFftBands ==
    /\ fft_pc = "bands"
    /\ current_fft' = [current_fft EXCEPT !.silent = calculate_fft(cb.out, cb.frames).silent]
    /\ fft_pc' = "idle"
    /\ fft_mutex' = "free"
    /\ cb' = [CbAdvance(cb) EXCEPT !.ffts = cb.ffts + 1]
    /\ UNCHANGED <<is_playing, live_coding_enabled, muted, track_ended,
                   decoder_initialized, decoder, current_track, device_started,
                   audio_mutex, stream_queue, stream_buffer, coder, lt, life,
                   gsb, cb_count, gsb_stats, residual_of, fft_read, call, dj, twin, lk>>

\* mutant: get_fft_data copies the snapshot without taking fft_mutex
FftReadLock_None(owner) == TRUE

\* the lock_guard of get_fft_data
FftReadLock(owner) == owner = "free"

\* get_fft_data: lock fft_mutex, return a copy of current_fft
GetFftData ==
    /\ FftReadLock(fft_mutex)
    /\ fft_read' = [done |-> TRUE, data |-> current_fft]
    /\ UNCHANGED <<is_playing, live_coding_enabled, muted, track_ended,
                   decoder_initialized, decoder, current_track, device_started,
                   audio_mutex, stream_queue, stream_buffer, current_fft, coder, cb, lt, life,
                   gsb, cb_count, gsb_stats, residual_of, fft_mutex, fft_pc, call, dj, twin, lk>>

\* if (engine->muted) zero the output block
CbMute ==
    /\ CbAt("mute")
    /\ cb' = [CbAdvance(cb) EXCEPT !.out = ApplyMute(cb.out, muted),
                                   !.mute_applied = muted]
    /\ UNCHANGED <<is_playing, live_coding_enabled, muted, track_ended,
                   decoder_initialized, decoder, current_track, device_started,
                   audio_mutex, stream_queue, stream_buffer, current_fft, coder, lt,
                   life, gsb, cb_count, gsb_stats,
                   residual_of, fft_mutex, fft_pc, fft_read, call, dj, twin, lk>>

\* the callback returns: its lock_guard releases audio_mutex
CbReturn ==
    /\ CbAt("return")
    /\ cb' = CbIdle
    /\ audio_mutex' = "free"
    /\ UNCHANGED <<is_playing, live_coding_enabled, muted, track_ended,
                   decoder_initialized, decoder, current_track, device_started,
                   stream_queue, stream_buffer, current_fft, coder, lt, life, gsb,
                   cb_count, gsb_stats,
                   residual_of, fft_mutex, fft_pc, fft_read, call, dj, twin, lk>>

----------------------------------------------------------------------------
(* AudioEngine::load_track *)

\* mutant: load_track does not take audio_mutex
LoadTrackLock_None(owner) == TRUE

\* the lock_guard of load_track
LoadTrackLock(owner) == owner = "free"

\* ma_decoder_init_file succeeds on a decodable file
DecoderInitFile(path) == path \in DOMAIN Files

LtBegin(path) ==
    /\ lt.pc = "idle"
    /\ LoadTrackLock(audio_mutex)
    /\ audio_mutex' = "load_track"
    /\ lt' = [pc |-> "teardown", path |-> path,
              before |-> <<decoder_initialized, decoder, current_track, track_ended>>]
    /\ UNCHANGED <<is_playing, live_coding_enabled, muted, track_ended,
                   decoder_initialized, decoder, current_track, device_started,
                   stream_queue, stream_buffer, current_fft, coder, cb, life, gsb,
                   cb_count, gsb_stats,
                   residual_of, fft_mutex, fft_pc, fft_read, call, dj, twin, lk>>

\* if (decoder_initialized) { ma_decoder_uninit(&decoder); decoder_initialized = false; }
LtTeardown ==
    /\ lt.pc = "teardown"
    /\ IF decoder_initialized
       THEN decoder' = NoDecoder /\ decoder_initialized' = FALSE
       ELSE UNCHANGED <<decoder, decoder_initialized>>
    /\ lt' = [lt EXCEPT !.pc = "init"]
    /\ UNCHANGED <<is_playing, live_coding_enabled, muted, track_ended, current_track,
                   device_started, audio_mutex, stream_queue, stream_buffer,
                   current_fft, coder, cb, life, gsb, cb_count, gsb_stats,
                   residual_of, fft_mutex, fft_pc, fft_read, call, dj, twin, lk>>

\* if (ma_decoder_init_file(...) != MA_SUCCESS) return false;
LtInit ==
    /\ lt.pc = "init"
    /\ \/ /\ DecoderInitFile(lt.path)
          /\ decoder' = [track |-> lt.path, pos |-> 0]
          /\ lt' = [lt EXCEPT !.pc = "commit"]
          /\ UNCHANGED audio_mutex
       \/ /\ ~DecoderInitFile(lt.path)
          /\ decoder' = NoDecoder
          /\ lt' = LtIdle
          /\ audio_mutex' = "free"
    /\ UNCHANGED <<is_playing, live_coding_enabled, muted, track_ended,
                   decoder_initialized, current_track, device_started, stream_queue,
                   stream_buffer, current_fft, coder, cb, life, gsb, cb_count, gsb_stats,
                   residual_of, fft_mutex, fft_pc, fft_read, call, dj, twin, lk>>

\* decoder_initialized = true; current_track = filepath; track_ended = false; return true;
LtCommit ==
    /\ lt.pc = "commit"
    /\ decoder_initialized' = TRUE
    /\ current_track' = lt.path
    /\ track_ended' = FALSE
    /\ lt' = LtIdle
    /\ audio_mutex' = "free"
    /\ UNCHANGED <<is_playing, live_coding_enabled, muted, decoder, device_started,
                   stream_queue, stream_buffer, current_fft, coder, cb, life, gsb,
                   cb_count, gsb_stats,
                   residual_of, fft_mutex, fft_pc, fft_read, call, dj, twin, lk>>

----------------------------------------------------------------------------
(* AudioEngine::get_stream_buffer.  The call holds stream_mutex except     *)
(* inside stream_cv.wait_for, so it runs in one step up to the wait (or    *)
(* the return), and in one step from each wake-up to the next wait (or the *)
(* return).                                                                *)

\* the while loop from its head: "extract" when the residual holds enough
\* samples, "wait" when it does not and the queue is empty; otherwise the front
\* chunk is moved to the residual and the loop goes round
RECURSIVE DrainLoop(_, _, _)
DrainLoop(buf, q, required) ==
    IF Len(buf) >= required THEN [next |-> "extract", buf |-> buf, q |-> q]
    ELSE IF q = <<>> THEN [next |-> "wait", buf |-> buf, q |-> q]
    ELSE DrainLoop(buf \o Head(q), Tail(q), required)

\* mutant: an untimed wait, which goes back to waiting while the queue is empty
AfterWait_Untimed(buf, q, required, status) ==
    IF q = <<>> THEN [next |-> "wait", buf |-> buf, q |-> q]
    ELSE DrainLoop(buf \o Head(q), Tail(q), required)

\* the loop after wait_for has returned with `status`: a timeout breaks, a
\* wake-up on a still empty queue breaks, otherwise the loop goes on
AfterWait(buf, q, required, status) ==
    IF status = "timeout" \/ q = <<>> THEN [next |-> "extract", buf |-> buf, q |-> q]
    ELSE DrainLoop(buf \o Head(q), Tail(q), required)

\* mutant: a short read is returned as it is, without the zero padding
ExtractResult_NoPadding(buf, required) ==
    IF Len(buf) >= required
    THEN [result |-> SubSeq(buf, 1, required),
          buf |-> SubSeq(buf, required + 1, Len(buf)),
          padding |-> 0]
    ELSE [result |-> buf, buf |-> <<>>, padding |-> required - Len(buf)]

\* mutant: what was drained beyond the request is dropped
ExtractResult_DropsSurplus(buf, required) ==
    IF Len(buf) >= required
    THEN [result |-> SubSeq(buf, 1, required), buf |-> <<>>, padding |-> 0]
    ELSE [result |-> buf \o Zeros(required - Len(buf)),
          buf |-> <<>>,
          padding |-> required - Len(buf)]

\* the result vector and what stays in the residual
ExtractResult(buf, required) ==
    IF Len(buf) >= required
    THEN [result |-> SubSeq(buf, 1, required),
          buf |-> SubSeq(buf, required + 1, Len(buf)),
          padding |-> 0]
    ELSE [result |-> buf \o Zeros(required - Len(buf)),
          buf |-> <<>>,
          padding |-> required - Len(buf)]

\* stream_buffer is a member of the engine: what a call of consumer c leaves in
\* it stays there for the next call, whoever makes it
ResidualOwner(c, buf) == IF buf = <<>> THEN "none" ELSE c

\* the call goes on from loop outcome r: it waits, or it builds its result
GsbProceed(c, frames, waits, r, calls) ==
    IF r.next = "wait"
    THEN /\ gsb' = [gsb EXCEPT ![c] = [GsbIdle EXCEPT !.pc = "waiting", !.frames = frames,
                                                    !.waits = Min(waits + 1, MaxWaitsCounted)]]
         /\ stream_buffer' = r.buf
         /\ stream_queue' = r.q
         /\ gsb_stats' = [gsb_stats EXCEPT !.calls = calls]
         /\ residual_of' = ResidualOwner(c, r.buf)
    ELSE LET x == ExtractResult(r.buf, 2 * frames)
         IN /\ gsb' = [gsb EXCEPT ![c] = [pc |-> "returned", frames |-> frames,
                                          result |-> x.result, waits |-> waits,
                                          padding |-> x.padding]]
            /\ stream_buffer' = x.buf
            /\ stream_queue' = r.q
            /\ gsb_stats' = [calls |-> calls,
                              frames |-> gsb_stats.frames + frames,
                              samples |-> gsb_stats.samples + Len(x.result)]
            /\ residual_of' = ResidualOwner(c, x.buf)

\* get_stream_buffer(frames) is called and runs up to its first wait or its return
GsbCall(c, frames, limit) ==
    /\ gsb[c].pc = "idle"
    /\ gsb_stats.calls < limit
    /\ LET r == DrainLoop(stream_buffer, stream_queue, 2 * frames)
       IN GsbProceed(c, frames, 0, r, gsb_stats.calls + 1)
    /\ UNCHANGED <<is_playing, live_coding_enabled, muted, track_ended,
                   decoder_initialized, decoder, current_track, device_started,
                   audio_mutex, current_fft, coder, cb, lt, life, cb_count,
                   fft_mutex, fft_pc, fft_read, call, dj, twin, lk>>

\* wait_for returns, after a notify, spuriously, or because the 100 ms are over
GsbWake(c, status) ==
    /\ gsb[c].pc = "waiting"
    /\ LET r == AfterWait(stream_buffer, stream_queue, 2 * gsb[c].frames, status)
       IN GsbProceed(c, gsb[c].frames, gsb[c].waits, r, gsb_stats.calls)
    /\ UNCHANGED <<is_playing, live_coding_enabled, muted, track_ended,
                   decoder_initialized, decoder, current_track, device_started,
                   audio_mutex, current_fft, coder, cb, lt, life, cb_count,
                   fft_mutex, fft_pc, fft_read, call, dj, twin, lk>>

\* the caller has the result
GsbReturn(c) ==
    /\ gsb[c].pc = "returned"
    /\ gsb' = [gsb EXCEPT ![c] = GsbIdle]
    /\ UNCHANGED <<is_playing, live_coding_enabled, muted, track_ended,
                   decoder_initialized, decoder, current_track, device_started,
                   audio_mutex, stream_queue, stream_buffer, current_fft, coder, cb,
                   lt, life, cb_count, gsb_stats,
                   residual_of, fft_mutex, fft_pc, fft_read, call, dj, twin, lk>>

----------------------------------------------------------------------------
(* AudioEngine::start / stop, and the atomic control calls *)

\* mutant: start() marks the engine as playing before it starts the device
StartDevice_MarksPlaying(ok) ==
    /\ life.pc = "idle"
    /\ IF ok
       THEN device_started' = TRUE /\ life' = [pc |-> "start_flag", threw |-> FALSE]
       ELSE UNCHANGED device_started /\ life' = [pc |-> "idle", threw |-> TRUE]
    /\ is_playing' = TRUE
    /\ UNCHANGED <<live_coding_enabled, muted, track_ended,
                   decoder_initialized, decoder, current_track, audio_mutex,
                   stream_queue, stream_buffer, current_fft, coder, cb, lt, gsb,
                   cb_count, gsb_stats,
                   residual_of, fft_mutex, fft_pc, fft_read, call, dj, twin, lk>>

\* ma_device_start: it may fail, and start() then throws before is_playing is set
StartDevice(ok) ==
    /\ life.pc = "idle"
    /\ IF ok
       THEN device_started' = TRUE /\ life' = [pc |-> "start_flag", threw |-> FALSE]
       ELSE UNCHANGED device_started /\ life' = [pc |-> "idle", threw |-> TRUE]
    /\ UNCHANGED <<is_playing, live_coding_enabled, muted, track_ended,
                   decoder_initialized, decoder, current_track, audio_mutex,
                   stream_queue, stream_buffer, current_fft, coder, cb, lt, gsb,
                   cb_count, gsb_stats,
                   residual_of, fft_mutex, fft_pc, fft_read, call, dj, twin, lk>>

\* is_playing = true;
StartFlag ==
    /\ life.pc = "start_flag"
    /\ is_playing' = TRUE
    /\ life' = [life EXCEPT !.pc = "idle"]
    /\ UNCHANGED <<live_coding_enabled, muted, track_ended, decoder_initialized,
                   decoder, current_track, device_started, audio_mutex, stream_queue,
                   stream_buffer, current_fft, coder, cb, lt, gsb, cb_count, gsb_stats,
                   residual_of, fft_mutex, fft_pc, fft_read, call, dj, twin, lk>>

\* is_playing = false;
StopFlag ==
    /\ life.pc = "idle"
    /\ is_playing' = FALSE
    /\ life' = [pc |-> "stop_device", threw |-> FALSE]
    /\ UNCHANGED <<live_coding_enabled, muted, track_ended, decoder_initialized,
                   decoder, current_track, device_started, audio_mutex, stream_queue,
                   stream_buffer, current_fft, coder, cb, lt, gsb, cb_count, gsb_stats,
                   residual_of, fft_mutex, fft_pc, fft_read, call, dj, twin, lk>>

\* ma_device_stop(&device): returns once no callback is in flight
StopDevice ==
    /\ life.pc = "stop_device"
    /\ ~CbRunning
    /\ device_started' = FALSE
    /\ life' = [life EXCEPT !.pc = "idle"]
    /\ UNCHANGED <<is_playing, live_coding_enabled, muted, track_ended,
                   decoder_initialized, decoder, current_track, audio_mutex,
                   stream_queue, stream_buffer, current_fft, coder, cb, lt, gsb,
                   cb_count, gsb_stats,
                   residual_of, fft_mutex, fft_pc, fft_read, call, dj, twin, lk>>

set_muted(mute) ==
    /\ muted' = mute
    /\ UNCHANGED <<is_playing, live_coding_enabled, track_ended, decoder_initialized,
                   decoder, current_track, device_started, audio_mutex, stream_queue,
                   stream_buffer, current_fft, coder, cb, lt, life, gsb, cb_count,
                   gsb_stats,
                   residual_of, fft_mutex, fft_pc, fft_read, call, dj, twin, lk>>

enable_live_coding(enable) ==
    /\ live_coding_enabled' = enable
    /\ UNCHANGED <<is_playing, muted, track_ended, decoder_initialized, decoder,
                   current_track, device_started, audio_mutex, stream_queue,
                   stream_buffer, current_fft, coder, cb, lt, life, gsb, cb_count,
                   gsb_stats,
                   residual_of, fft_mutex, fft_pc, fft_read, call, dj, twin, lk>>

\* get_coder_mode()->trigger_sample(id, volume), from a control thread
TriggerSample(id, volume) ==
    /\ Len(coder.active_samples) < MaxVoices
    /\ coder' = trigger_sample(coder, id, volume)
    /\ UNCHANGED <<is_playing, live_coding_enabled, muted, track_ended,
                   decoder_initialized, decoder, current_track, device_started,
                   audio_mutex, stream_queue, stream_buffer, current_fft, cb, lt, life,
                   gsb, cb_count, gsb_stats,
                   residual_of, fft_mutex, fft_pc, fft_read, call, dj, twin, lk>>

----------------------------------------------------------------------------
(* The engine specification: the callback against the control threads *)

CbFrames == {2}
TriggerIds == {0, 9}
Volumes == {1}

Next ==
    \/ \E n \in CbFrames : CbBegin(n, MaxCallbacks)
    \/ CbPublish
    \/ CbFft
    \/ CbMute
    \/ CbReturn
    \/ \E p \in Paths : LtBegin(p)
    \/ LtTeardown
    \/ LtInit
    \/ LtCommit
    \/ \E ok \in BOOLEAN : StartDevice(ok)
    \/ StartFlag
    \/ StopFlag
    \/ StopDevice
    \/ \E b \in BOOLEAN : set_muted(b)
    \/ \E b \in BOOLEAN : enable_live_coding(b)
    \/ \E id \in TriggerIds, v \in Volumes : TriggerSample(id, v)

Spec == Init /\ [][Next]_vars

----------------------------------------------------------------------------
(* The stream specification: the callback, playing the long file, against  *)
(* a consumer of the stream queue                                          *)

StreamFrames == {3}
RequestFrames == {0, 1, 2}
WaitStatus == {"timeout", "no_timeout"}

StreamNext ==
    \/ \E n \in StreamFrames : CbBegin(n, MaxStreamCallbacks)
    \/ CbPublish
    \/ CbFft
    \/ CbMute
    \/ CbReturn
    \/ LtBegin("s")
    \/ LtTeardown
    \/ LtInit
    \/ LtCommit
    \/ StartDevice(TRUE)
    \/ StartFlag
    \/ StopFlag
    \/ StopDevice
    \/ \E f \in RequestFrames : GsbCall("c1", f, MaxGets)
    \/ \E st \in WaitStatus : GsbWake("c1", st)
    \/ GsbReturn("c1")

StreamSpec == Init /\ [][StreamNext]_vars

\* wait_for is a timed wait, so a waiting call wakes up; every other thread
\* that can take a step eventually takes it
FairStreamSpec ==
    /\ StreamSpec
    /\ WF_vars(\E st \in WaitStatus : GsbWake("c1", st))
    /\ WF_vars(GsbReturn("c1"))
    /\ WF_vars(CbPublish \/ CbFft \/ CbMute \/ CbReturn)

----------------------------------------------------------------------------
(* The queue specification: enough callbacks to fill the stream queue and  *)
(* overflow it, against a consumer.  It starts where main() is after       *)
(* load_track(first track) and start(): the long file loaded, the device   *)
(* running.                                                                *)

QueueFrames == {1}
QueueRequestFrames == {1, 3}

QueueInit ==
    /\ is_playing = TRUE
    /\ live_coding_enabled = FALSE
    /\ muted = FALSE
    /\ track_ended = FALSE
    /\ decoder_initialized = TRUE
    /\ decoder = [track |-> "s", pos |-> 0]
    /\ current_track = "s"
    /\ device_started = TRUE
    /\ audio_mutex = "free"
    /\ stream_queue = <<>>
    /\ stream_buffer = <<>>
    /\ current_fft = InitialFft
    /\ coder = CoderInit
    /\ cb = CbIdle
    /\ lt = LtIdle
    /\ life = [pc |-> "idle", threw |-> FALSE]
    /\ gsb = [c \in Consumers |-> GsbIdle]
    /\ cb_count = 0
    /\ gsb_stats = [calls |-> 0, frames |-> 0, samples |-> 0]
    /\ residual_of = "none"
    /\ fft_mutex = "free"
    /\ fft_pc = "idle"
    /\ fft_read = FftNotRead
    /\ call = NoCall
    /\ dj = DjInit
    /\ twin = TwinInit
    /\ lk = LkInit

QueueNext ==
    \/ \E n \in QueueFrames : CbBegin(n, MaxQueueCallbacks)
    \/ CbPublish
    \/ CbFft
    \/ CbMute
    \/ CbReturn
    \/ \E f \in QueueRequestFrames : GsbCall("c1", f, MaxQueueGets)
    \/ \E st \in WaitStatus : GsbWake("c1", st)
    \/ GsbReturn("c1")

QueueSpec == QueueInit /\ [][QueueNext]_vars

----------------------------------------------------------------------------
(* The drain specification: one consumer whose requests do not align with  *)
(* the callback's blocks of 2 frames, and enough callbacks to overflow the *)
(* queue                                                                   *)

DrainNext ==
    \/ \E n \in {2} : CbBegin(n, MaxQueueCallbacks)
    \/ CbPublish
    \/ CbFft
    \/ CbMute
    \/ CbReturn
    \/ \E f \in {1, 3} : GsbCall("c1", f, MaxDrainGets)
    \/ \E st \in WaitStatus : GsbWake("c1", st)
    \/ GsbReturn("c1")

DrainSpec == QueueInit /\ [][DrainNext]_vars

----------------------------------------------------------------------------
(* The consumers specification: two threads calling get_stream_buffer (the  *)
(* streaming loops of network_server.cpp) against the callback.  A chunk    *)
(* carries two frames and a call asks for one, so a call leaves a residual. *)

SharedFrames == {2}
SharedRequestFrames == {1}

ConsumersNext ==
    \/ \E n \in SharedFrames : CbBegin(n, MaxSharedCallbacks)
    \/ CbPublish
    \/ CbFft
    \/ CbMute
    \/ CbReturn
    \/ \E c \in Consumers, f \in SharedRequestFrames : GsbCall(c, f, MaxSharedGets)
    \/ \E c \in Consumers, st \in WaitStatus : GsbWake(c, st)
    \/ \E c \in Consumers : GsbReturn(c)

ConsumersSpec == QueueInit /\ [][ConsumersNext]_vars

----------------------------------------------------------------------------
(* The FFT specification: a thread calling get_fft_data (the TUI, the       *)
(* network server) against callbacks whose calculate_fft runs step by step; *)
(* stop() and start() make the callback produce silent blocks too.          *)

FftFrames == {1}

FftNext ==
    \/ \E n \in FftFrames : CbBegin(n, MaxFftCallbacks)
    \/ CbPublish
    \/ CbFftLock
    \/ CbFftMagnitudes
    \/ CbFftBands
    \/ CbMute
    \/ CbReturn
    \/ StartDevice(TRUE)
    \/ StartFlag
    \/ StopFlag
    \/ StopDevice
    \/ GetFftData

FftSpec == QueueInit /\ [][FftNext]_vars

----------------------------------------------------------------------------
(* The CoderMode specification: the public operations of CoderMode called   *)
(* one after the other on the instance the engine constructs (each holds    *)
(* CoderMode::mutex for its whole body).  `call` keeps the last call: its   *)
(* arguments, the state it found and, for process, the block it produced.   *)

Called(op, args, before, mixed, out) ==
    [op |-> op, args |-> args, before |-> before, mixed |-> mixed, out |-> out]

CoderFrame ==
    UNCHANGED <<is_playing, live_coding_enabled, muted, track_ended,
                decoder_initialized, decoder, current_track, device_started,
                audio_mutex, stream_queue, stream_buffer, current_fft, cb, lt, life,
                gsb, cb_count, gsb_stats, residual_of, fft_mutex, fft_pc, fft_read, dj, twin, lk>>

CoderTrigger(id, volume) ==
    /\ Len(coder.active_samples) < MaxCoderVoices
    /\ coder' = trigger_sample(coder, id, volume)
    /\ call' = Called("trigger_sample", [id |-> id, volume |-> volume], coder, <<>>, <<>>)
    /\ CoderFrame

CoderAddEvent(sequence_id, frame_offset, sample_id, volume) ==
    /\ sequence_id \in DOMAIN coder.sequences =>
           Len(coder.sequences[sequence_id].events) < MaxEvents
    /\ coder' \in add_sequence_event(coder, sequence_id, frame_offset, sample_id, volume)
    /\ call' = Called("add_sequence_event",
                      [sequence_id |-> sequence_id, frame_offset |-> frame_offset,
                       sample_id |-> sample_id, volume |-> volume], coder, <<>>, <<>>)
    /\ CoderFrame

CoderPlay(sequence_id) ==
    /\ coder' = play_sequence(coder, sequence_id)
    /\ call' = Called("play_sequence", [sequence_id |-> sequence_id], coder, <<>>, <<>>)
    /\ CoderFrame

CoderStop(sequence_id) ==
    /\ coder' = stop_sequence(coder, sequence_id)
    /\ call' = Called("stop_sequence", [sequence_id |-> sequence_id], coder, <<>>, <<>>)
    /\ CoderFrame

CoderProcess(n) ==
    \E r \in {process(coder, n)} :
       /\ Len(r.coder.active_samples) <= MaxCoderVoices
       /\ \A q \in DOMAIN r.coder.sequences : r.coder.sequences[q].current_frame <= MaxCursor
       /\ Len(r.coder.recorded_buffer) <= MaxRecorded
       /\ coder' = r.coder
       /\ call' = Called("process", [frame_count |-> n], coder, r.mixed, r.out)
       /\ CoderFrame

CoderSetRecording(record) ==
    /\ coder' = set_recording(coder, record)
    /\ call' = Called("set_recording", [record |-> record], coder, <<>>, <<>>)
    /\ CoderFrame

CoderGetRecording ==
    /\ call' = Called("get_recording", <<>>, coder, <<>>, get_recording(coder))
    /\ UNCHANGED coder
    /\ CoderFrame

CoderSetLoop(start_frame, end_frame) ==
    /\ coder' = set_loop(coder, start_frame, end_frame)
    /\ call' = Called("set_loop", [start_frame |-> start_frame, end_frame |-> end_frame],
                      coder, <<>>, <<>>)
    /\ CoderFrame

CoderToggleLoop ==
    /\ coder' = toggle_loop(coder)
    /\ call' = Called("toggle_loop", <<>>, coder, <<>>, <<>>)
    /\ CoderFrame

CoderLoadSample(id, data) ==
    /\ coder' = load_sample(coder, id, data)
    /\ call' = Called("load_sample", [id |-> id, data |-> data], coder, <<>>, <<>>)
    /\ CoderFrame

CoderIds == {3, 9}
CoderVolumes == {2}
CoderFrames == {1, 2}
SeqIds == {1}
EventOffsets == {0, 1}
EventSamples == {1, 9}
EventVolumes == {1}

CoderNext ==
    \/ \E id \in CoderIds, v \in CoderVolumes : CoderTrigger(id, v)
    \/ \E q \in SeqIds, off \in EventOffsets, id \in EventSamples, v \in EventVolumes :
          CoderAddEvent(q, off, id, v)
    \/ \E q \in SeqIds : CoderPlay(q)
    \/ \E q \in SeqIds : CoderStop(q)
    \/ \E n \in CoderFrames : CoderProcess(n)

CoderSpec == Init /\ [][CoderNext]_vars

(***************************************************************************)
(* SimpleFFT (fft.cpp) and the values AudioEngine::calculate_fft stores.   *)
(* A float is a fraction num / den, or a NaN.  The transform itself is     *)
(* not computed: analyze is given the magnitudes |data[i]| of the bins     *)
(* below fft_size / 2, which are finite and not negative.                  *)
(***************************************************************************)
NaN == [ nan |-> TRUE, num |-> 0, den |-> 1 ]
Float(k) == [ nan |-> FALSE, num |-> k, den |-> 1 ]

RECURSIVE Gcd(_, _)
Gcd(a, b) == IF b = 0 THEN a ELSE Gcd(b, a % b)

\* num / den in lowest terms
Fraction(num, den) ==
    LET g == Gcd(num, den)
    IN  IF g = 0 THEN [ nan |-> FALSE, num |-> num, den |-> den ]
        ELSE [ nan |-> FALSE, num |-> num \div g, den |-> den \div g ]

\* a + b
FloatAdd(a, b) ==
    IF a.nan \/ b.nan THEN NaN
    ELSE Fraction(a.num * b.den + b.num * a.den, a.den * b.den)

\* a / k for a count k: 0.0f / 0 is a NaN, x / 0 an infinity (den = 0)
FloatDiv(a, k) ==
    IF a.nan \/ (k = 0 /\ a.num = 0) THEN NaN
    ELSE Fraction(a.num, a.den * k)

\* a < b; false when either is a NaN
FloatLess(a, b) == ~a.nan /\ ~b.nan /\ a.num * b.den < b.num * a.den

\* a == b; false when either is a NaN
FloatEq(a, b) == ~a.nan /\ ~b.nan /\ a.num * b.den = b.num * a.den

\* a is a number of [0, 1]
InUnit(a) == ~a.nan /\ a.den > 0 /\ 0 <= a.num /\ a.num <= a.den

\* the sum of magnitudes[i] for lo <= i < hi, counted from 0 as the source does
RECURSIVE SumRange(_, _, _)
SumRange(magnitudes, lo, hi) ==
    IF lo >= hi THEN Float(0)
    ELSE FloatAdd(SumRange(magnitudes, lo, hi - 1), magnitudes[hi])

\* while (fft_size < count) fft_size *= 2
RECURSIVE PowerOfTwoFrom(_, _)
PowerOfTwoFrom(fft_size, count) ==
    IF fft_size < count THEN PowerOfTwoFrom(2 * fft_size, count) ELSE fft_size

\* the cap of the transform size
MaxFftSize == 2048

\* the FFTData magnitudes the engine asks for
NumBands == 64

FftSize(count) == Min(PowerOfTwoFrom(1, count), MaxFftSize)

\* mag / max_val, where max_val is the largest magnitude and at least 0.0001f;
\* a magnitude that is not 0 is a sum of whole numbers over at most 16 bins,
\* so it is above 0.0001f
Normalized(magnitudes) ==
    LET above == { j \in DOMAIN magnitudes :
                     ~magnitudes[j].nan /\ magnitudes[j].num > 0 }
        top == CHOOSE j \in above :
                 \A k \in above : ~FloatLess(magnitudes[j], magnitudes[k])
    IN  [ j \in DOMAIN magnitudes |->
            IF magnitudes[j].nan THEN NaN
            ELSE IF above = {} THEN Float(0)
            ELSE Fraction(magnitudes[j].num * magnitudes[top].den,
                          magnitudes[j].den * magnitudes[top].num) ]

\* SimpleFFT::analyze from the magnitude grouping on; bins[i + 1] is |data[i]|
analyze(bins, count, num_bands) ==
    LET fft_size == FftSize(count)
        bins_per_band == (fft_size \div 2) \div num_bands
        magnitudes ==
            [ b \in 1..num_bands |->
                LET start == (b - 1) * bins_per_band
                    end == Min(start + bins_per_band, fft_size \div 2)
                IN  FloatDiv(SumRange([ i \in 1..Len(bins) |-> Float(bins[i]) ], start, end),
                             bins_per_band) ]
    IN  Normalized(magnitudes)

\* SimpleFFT::calculate_bands
calculate_bands(magnitudes) ==
    LET num_bands == Len(magnitudes)
        bass_end == num_bands \div 5
        mid_start == bass_end
        mid_end == num_bands \div 2
        treble_start == mid_end
    IN  [ bass |-> FloatDiv(SumRange(magnitudes, 0, bass_end), bass_end),
          mid |-> FloatDiv(SumRange(magnitudes, mid_start, mid_end), mid_end - mid_start),
          treble |-> FloatDiv(SumRange(magnitudes, treble_start, num_bands),
                              num_bands - treble_start) ]

\* AudioEngine::calculate_fft after the mono mix: the FFTData it stores
FFTData(bins, frame_count) ==
    LET magnitudes == analyze(bins, frame_count, NumBands)
        bands == calculate_bands(magnitudes)
    IN  [ magnitudes |-> magnitudes,
          bass |-> bands.bass, mid |-> bands.mid, treble |-> bands.treble,
          energy |-> FloatDiv(FloatAdd(FloatAdd(bands.bass, bands.mid), bands.treble), 3) ]

\* the spectra analyze is given: the magnitude of bin i, counted from 0
SpectrumShapes == {"silence", "flat", "alternating", "bass"}
BinMagnitude(shape, i) ==
    CASE shape = "silence" -> 0
      [] shape = "flat" -> 1
      [] shape = "alternating" -> i % 2
      [] shape = "bass" -> IF i < 4 THEN 3 ELSE 0

Spectrum(shape, count) == [ i \in 1..(FftSize(count) \div 2) |-> BinMagnitude(shape, i - 1) ]

\* callback block sizes: around the sizes where the bins per band change
BlockSizes == {1, 2, 63, 64, 65, 127, 128, 129, 441, 512, 2048, 2049, 4096}

\* magnitude arrays handed to calculate_bands directly
MaxBands == 5
MagnitudeArrays ==
    UNION { [ 1..n -> {1} ] : n \in 0..MaxBands }
      \cup UNION { [ 1..n -> {0, 1, 2} ] : n \in {2, 5} }
      \cup { [ i \in 1..n |-> 2 ] : n \in {10, NumBands} }

AnalyzerFrame ==
    UNCHANGED <<is_playing, live_coding_enabled, muted, track_ended,
                decoder_initialized, decoder, current_track, device_started,
                audio_mutex, stream_queue, stream_buffer, current_fft, coder, cb, lt,
                life, gsb, cb_count, gsb_stats, residual_of, fft_mutex, fft_pc,
                fft_read, dj, twin, lk>>

ApplyAnalyze(shape, count) ==
    /\ call = NoCall
    /\ call' = Called("analyze", [shape |-> shape, count |-> count, num_bands |-> NumBands],
                      <<>>, <<>>, analyze(Spectrum(shape, count), count, NumBands))
    /\ AnalyzerFrame

ApplyCalculateBands(magnitudes) ==
    /\ call = NoCall
    /\ call' = Called("calculate_bands", [magnitudes |-> magnitudes], <<>>, <<>>,
                      calculate_bands([ i \in 1..Len(magnitudes) |-> Float(magnitudes[i]) ]))
    /\ AnalyzerFrame

ApplyCalculateFft(shape, frame_count) ==
    /\ call = NoCall
    /\ call' = Called("calculate_fft", [shape |-> shape, frame_count |-> frame_count],
                      <<>>, <<>>, FFTData(Spectrum(shape, frame_count), frame_count))
    /\ AnalyzerFrame

\* one call on a fresh state: the functions are static and keep nothing
AnalyzerNext ==
    \/ \E shape \in SpectrumShapes, n \in BlockSizes : ApplyAnalyze(shape, n)
    \/ \E m \in MagnitudeArrays : ApplyCalculateBands(m)
    \/ \E shape \in SpectrumShapes, n \in BlockSizes : ApplyCalculateFft(shape, n)

AnalyzerSpec == Init /\ [][AnalyzerNext]_vars

(***************************************************************************)
(* The DJCueSystem specification: every public operation, called directly  *)
(* with arguments from small sets; nothing in the repository calls them.   *)
(***************************************************************************)
DjFrame ==
    UNCHANGED <<is_playing, live_coding_enabled, muted, track_ended,
                decoder_initialized, decoder, current_track, device_started,
                audio_mutex, stream_queue, stream_buffer, current_fft, coder, cb, lt,
                life, gsb, cb_count, gsb_stats, residual_of, fft_mutex, fft_pc,
                fft_read, twin, lk>>

DjCueNextTrack(track_path, fade_in) ==
    /\ dj' = cue_next_track(dj, track_path, fade_in)
    /\ call' = Called("cue_next_track", [track_path |-> track_path, fade_in |-> fade_in],
                      dj, <<>>, <<>>)
    /\ DjFrame

DjTriggerCrossfade ==
    /\ dj' = trigger_crossfade(dj)
    /\ call' = Called("trigger_crossfade", <<>>, dj, <<>>, <<>>)
    /\ DjFrame

DjSetCrossfadeDuration(half_seconds) ==
    /\ dj' = set_crossfade_duration(dj, half_seconds)
    /\ call' = Called("set_crossfade_duration", [seconds |-> half_seconds], dj, <<>>, <<>>)
    /\ DjFrame

DjShouldAutoCrossfade(current_position, track_length) ==
    /\ call' = Called("should_auto_crossfade",
                      [current_position |-> current_position, track_length |-> track_length],
                      dj, <<>>, should_auto_crossfade(dj, current_position, track_length))
    /\ UNCHANGED dj
    /\ DjFrame

\* the blocks handed to process_crossfade: frame_count frames of each track
CurrentAudio(frame_count) == Take(<<1, 1, 2, 2>>, 2 * frame_count)
NextAudio(frame_count) == Take(<<-1, -1, -2, -2>>, 2 * frame_count)

DjProcessCrossfade(frame_count, current_pos) ==
    \E r \in {process_crossfade(dj, CurrentAudio(frame_count), NextAudio(frame_count),
                                 frame_count, current_pos)} :
       /\ dj' = r.dj
       /\ call' = Called("process_crossfade",
                         [frame_count |-> frame_count, current_pos |-> current_pos,
                          current_audio |-> CurrentAudio(frame_count)],
                         dj, <<>>,
                         [current_audio |-> r.current_audio, current_pos |-> r.current_pos,
                          applied |-> r.applied, completed |-> r.completed])
       /\ DjFrame

DjSetBpm(bpm) ==
    /\ dj' = set_bpm(dj, bpm)
    /\ call' = Called("set_bpm", [bpm |-> bpm], dj, <<>>, <<>>)
    /\ DjFrame

DjCalculateMixPoint(next_track_bpm) ==
    /\ call' = Called("calculate_mix_point", [next_track_bpm |-> next_track_bpm], dj, <<>>,
                      calculate_mix_point(dj, next_track_bpm))
    /\ UNCHANGED dj
    /\ DjFrame

DjIsCrossfadingActive ==
    /\ call' = Called("is_crossfading_active", <<>>, dj, <<>>, is_crossfading_active(dj))
    /\ UNCHANGED dj
    /\ DjFrame

DjClearCue ==
    /\ dj' = clear_cue(dj)
    /\ call' = Called("clear_cue", <<>>, dj, <<>>, <<>>)
    /\ DjFrame

DjSetHotCue(slot, position, label) ==
    /\ dj' = set_hot_cue(dj, slot, position, label)
    /\ call' = Called("set_hot_cue", [slot |-> slot, position |-> position, label |-> label],
                      dj, <<>>, <<>>)
    /\ DjFrame

DjGetHotCue(slot) ==
    /\ call' = Called("get_hot_cue", [slot |-> slot], dj, <<>>, get_hot_cue(dj, slot))
    /\ UNCHANGED dj
    /\ DjFrame

DjClearHotCue(slot) ==
    /\ dj' = clear_hot_cue(dj, slot)
    /\ call' = Called("clear_hot_cue", [slot |-> slot], dj, <<>>, <<>>)
    /\ DjFrame

\* the slots drawn for the hot cue operations: the ends of 0..7 and beyond
DjSlots == {-1, 0, 7, 8}

\* durations are 0.5 s, 1.5 s and 3 s; positions and track lengths lie on
\* both sides of the fade length
DjNext ==
    \/ \E t \in {"a"}, f \in {2} : DjCueNextTrack(t, f)
    \/ DjTriggerCrossfade
    \/ \E s \in {1, 3, 6} : DjSetCrossfadeDuration(s)
    \/ \E p \in {0, 1, 3}, l \in {1, 4} : DjShouldAutoCrossfade(p, l)
    \/ \E n \in {0, 1, 2}, p \in {5} : DjProcessCrossfade(n, p)
    \/ \E b \in {0, 120} : DjSetBpm(b)
    \/ \E b \in {0, 120} : DjCalculateMixPoint(b)
    \/ DjIsCrossfadingActive
    \/ DjClearCue
    \/ \E i \in DjSlots, p \in {5}, l \in {"x"} : DjSetHotCue(i, p, l)
    \/ \E i \in DjSlots : DjGetHotCue(i)
    \/ \E i \in DjSlots : DjClearHotCue(i)

DjSpec == Init /\ [][DjNext]_vars

----------------------------------------------------------------------------
(* The track specification: load_track against a thread that asks for the  *)
(* current track.                                                          *)

\* AudioEngine::get_current_track: a copy of current_track, made without
\* audio_mutex.  While load_track stands at its assignment to current_track
\* the copy and the assignment are not ordered: the read is undefined, and
\* yields the old string, the new one or a mix of the two
GetCurrentTrack ==
    /\ \E value \in (IF lt.pc = "commit" THEN {current_track, lt.path, "torn"}
                      ELSE {current_track}) :
          call' = Called("get_current_track", <<>>,
                         [writing |-> lt.pc = "commit", current_track |-> current_track],
                         <<>>, value)
    /\ UNCHANGED <<is_playing, live_coding_enabled, muted, track_ended,
                   decoder_initialized, decoder, current_track, device_started,
                   audio_mutex, stream_queue, stream_buffer, current_fft, coder, cb, lt,
                   life, gsb, cb_count, gsb_stats, residual_of, fft_mutex, fft_pc,
                   fft_read, dj, twin, lk>>

TrackNext ==
    \/ \E path \in Paths : LtBegin(path)
    \/ LtTeardown
    \/ LtInit
    \/ LtCommit
    \/ GetCurrentTrack
    \/ StartDevice(TRUE)
    \/ StartFlag
    \/ StopFlag
    \/ StopDevice

TrackSpec == Init /\ [][TrackNext]_vars


\* the loop specification: the loop region against process; the regions
\* drawn are (0, 2), (1, 3) and the empty (2, 1)
LoopNext ==
    \/ \E region \in {<<0, 2>>, <<1, 3>>, <<2, 1>>} : CoderSetLoop(region[1], region[2])
    \/ CoderToggleLoop
    \/ \E n \in CoderFrames : CoderProcess(n)
    \/ \E b \in BOOLEAN : CoderSetRecording(b)

LoopSpec == Init /\ [][LoopNext]_vars

\* the bank specification: samples are replaced while voices play them; the
\* data loaded is empty, shorter or longer than the square wave of id 3
BankNext ==
    \/ \E id \in CoderIds, v \in CoderVolumes : CoderTrigger(id, v)
    \/ \E id \in CoderIds, data \in {<<>>, <<2>>, <<2, 2, 2, 2>>} : CoderLoadSample(id, data)
    \/ \E n \in CoderFrames : CoderProcess(n)

BankSpec == Init /\ [][BankNext]_vars

(***************************************************************************)
(* Two runs of the engine side by side.  Every call and every step of the  *)
(* callback is applied to both runs; set_muted is called in the second run *)
(* only, so the first is the run that never mutes and the second ranges    *)
(* over the set_muted histories.  Two runs that each agree with the run    *)
(* that never mutes agree with each other.                                 *)
(***************************************************************************)
\* data_callback up to the end of the source branch, on run r
RunCallbackBegin(r, n) ==
    LET state == SelectSource(r.live_coding_enabled, r.decoder_initialized, r.is_playing)
        fresh == [CbIdle EXCEPT !.todo = CallbackSteps(state), !.frames = n,
                                !.state = state]
        r1    == [r EXCEPT !.callbacks = r.callbacks + 1]
    IN IF state = "CODER"
       THEN LET p == process(r.coder, n)
            IN [r1 EXCEPT !.coder = p.coder,
                          !.cb = [fresh EXCEPT !.out = p.out, !.produced = p.out]]
       ELSE IF state = "DECODE"
       THEN LET rd  == DecoderRead(r.decoder, n)
                blk == DecodeBlock(rd, n)
            IN [r1 EXCEPT !.decoder = rd.decoder,
                          !.track_ended = TrackEndedAfterRead(r.track_ended,
                                                              rd.frames_read, n),
                          !.cb = [fresh EXCEPT !.out = blk, !.produced = blk,
                                               !.frames_read = rd.frames_read]]
       ELSE [r1 EXCEPT !.cb = [fresh EXCEPT !.out = Zeros(2 * n),
                                            !.produced = Zeros(2 * n)]]

\* the next statement of data_callback after the source branch, on run r
RunCallbackStep(r) ==
    LET step == Head(r.cb.todo)
    IN IF step = "publish"
       THEN [r EXCEPT !.stream_queue = add_to_stream_queue(r.stream_queue, r.cb.out),
                      !.cb = [CbAdvance(r.cb) EXCEPT !.pushes = r.cb.pushes + 1]]
       ELSE IF step = "fft"
       THEN [r EXCEPT !.current_fft = calculate_fft(r.cb.out, r.cb.frames),
                      !.cb = [CbAdvance(r.cb) EXCEPT !.ffts = r.cb.ffts + 1]]
       ELSE IF step = "mute"
       THEN [r EXCEPT !.cb = [CbAdvance(r.cb) EXCEPT !.out = ApplyMute(r.cb.out, r.muted),
                                                     !.mute_applied = r.muted]]
       ELSE [r EXCEPT !.cb = CbIdle]

\* load_track(path) from its lock to its return, on run r
RunLoadTrack(r, path) ==
    IF DecoderInitFile(path)
    THEN [r EXCEPT !.decoder = [track |-> path, pos |-> 0],
                   !.decoder_initialized = TRUE,
                   !.track_ended = FALSE]
    ELSE [r EXCEPT !.decoder = NoDecoder, !.decoder_initialized = FALSE]

\* get_stream_buffer goes on from loop outcome d, on run r
RunGsbProceed(r, frames, d) ==
    IF d.next = "wait"
    THEN [r EXCEPT !.stream_buffer = d.buf, !.stream_queue = d.q,
                   !.gsb = [GsbIdle EXCEPT !.pc = "waiting", !.frames = frames]]
    ELSE LET x == ExtractResult(d.buf, 2 * frames)
         IN [r EXCEPT !.stream_buffer = x.buf, !.stream_queue = d.q,
                      !.gsb = [GsbIdle EXCEPT !.frames = frames, !.result = x.result,
                                              !.padding = x.padding]]

\* get_stream_buffer(frames) up to its first wait or its return, on run r
RunGsbCall(r, frames) ==
    RunGsbProceed([r EXCEPT !.gets = r.gets + 1], frames,
                  DrainLoop(r.stream_buffer, r.stream_queue, 2 * frames))

\* get_stream_buffer from a wake-up to its next wait or its return, on run r
RunGsbWake(r, status) ==
    RunGsbProceed(r, r.gsb.frames,
                  AfterWait(r.stream_buffer, r.stream_queue, 2 * r.gsb.frames, status))

TwinFrame ==
    UNCHANGED <<is_playing, live_coding_enabled, muted, track_ended,
                decoder_initialized, decoder, current_track, device_started,
                audio_mutex, stream_queue, stream_buffer, current_fft, coder, cb, lt,
                life, gsb, cb_count, gsb_stats, residual_of, fft_mutex, fft_pc,
                fft_read, call, dj, lk>>

\* the device delivers a callback of n frames
TwinCallbackBegin(n) ==
    /\ \A i \in 1..2 : twin[i].cb.todo = <<>> /\ twin[i].callbacks < MaxSharedCallbacks
    /\ twin' = [i \in 1..2 |-> RunCallbackBegin(twin[i], n)]
    /\ TwinFrame

\* the callback in flight executes its next statement
TwinCallbackStep ==
    /\ \A i \in 1..2 : twin[i].cb.todo # <<>>
    /\ Head(twin[1].cb.todo) = Head(twin[2].cb.todo)
    /\ twin' = [i \in 1..2 |-> RunCallbackStep(twin[i])]
    /\ TwinFrame

\* load_track(path): it holds audio_mutex, so it runs between two callbacks
TwinLoadTrack(path) ==
    /\ \A i \in 1..2 : twin[i].cb.todo = <<>>
    /\ twin' = [i \in 1..2 |-> RunLoadTrack(twin[i], path)]
    /\ TwinFrame

\* start() / stop(): is_playing = playing
TwinSetPlaying(playing) ==
    /\ twin' = [i \in 1..2 |-> [twin[i] EXCEPT !.is_playing = playing]]
    /\ TwinFrame

TwinEnableLiveCoding(enable) ==
    /\ twin' = [i \in 1..2 |-> [twin[i] EXCEPT !.live_coding_enabled = enable]]
    /\ TwinFrame

\* a CoderMode command: it holds the CoderMode mutex, which process holds
\* for the whole of its run
TwinTriggerSample(id, volume) ==
    /\ \A i \in 1..2 : Len(twin[i].coder.active_samples) < MaxVoices
    /\ twin' = [i \in 1..2 |->
                   [twin[i] EXCEPT !.coder = trigger_sample(twin[i].coder, id, volume)]]
    /\ TwinFrame

TwinGsbCall(frames) ==
    /\ \A i \in 1..2 : twin[i].gsb.pc = "idle" /\ twin[i].gets < MaxGets
    /\ twin' = [i \in 1..2 |-> RunGsbCall(twin[i], frames)]
    /\ TwinFrame

TwinGsbWake(status) ==
    /\ \A i \in 1..2 : twin[i].gsb.pc = "waiting"
    /\ twin' = [i \in 1..2 |-> RunGsbWake(twin[i], status)]
    /\ TwinFrame

\* set_muted(mute) is called in the second run
TwinSetMuted(mute) ==
    /\ twin[2].muted # mute
    /\ twin' = [twin EXCEPT ![2] = [@ EXCEPT !.muted = mute]]
    /\ TwinFrame

TwinNext ==
    \/ \E n \in CbFrames : TwinCallbackBegin(n)
    \/ TwinCallbackStep
    \/ \E path \in {"a"} : TwinLoadTrack(path)
    \/ \E b \in BOOLEAN : TwinSetPlaying(b)
    \/ \E b \in BOOLEAN : TwinEnableLiveCoding(b)
    \/ \E id \in {3}, v \in Volumes : TwinTriggerSample(id, v)
    \/ \E f \in {3} : TwinGsbCall(f)
    \/ \E status \in WaitStatus : TwinGsbWake(status)
    \/ \E b \in BOOLEAN : TwinSetMuted(b)

TwinSpec == Init /\ [][TwinNext]_vars

(***************************************************************************)
(* The locking of the engine.  A call is the sequence of lock, unlock and  *)
(* wait operations its code makes, in the order it makes them; a thread    *)
(* executes the operations of its call one at a time.                      *)
(***************************************************************************)
Lock(m) == [op |-> "lock", m |-> m]
Unlock(m) == [op |-> "unlock", m |-> m]
WaitFor(m) == [op |-> "wait", m |-> m]

\* data_callback: the lock_guard on audio_mutex for the whole body; in the
\* live-coding branch CoderMode::process, which takes the CoderMode mutex; then
\* add_to_stream_queue (stream_mutex) and calculate_fft (fft_mutex)
CallbackProgram(state) ==
    <<Lock("audio_mutex")>>
    \o (IF state = "CODER" THEN <<Lock("coder_mutex"), Unlock("coder_mutex")>> ELSE <<>>)
    \o <<Lock("stream_mutex"), Unlock("stream_mutex"),
         Lock("fft_mutex"), Unlock("fft_mutex"), Unlock("audio_mutex")>>

\* get_stream_buffer: the unique_lock on stream_mutex, and as many wait_for
\* calls as the loop makes before it returns
RECURSIVE GetStreamBufferProgram(_)
GetStreamBufferProgram(waits) ==
    IF waits = 0 THEN <<Lock("stream_mutex"), Unlock("stream_mutex")>>
    ELSE LET p == GetStreamBufferProgram(waits - 1)
         IN <<Head(p), WaitFor("stream_mutex")>> \o Tail(p)

\* the calls a thread makes
Programs(t) ==
    IF t = "callback" THEN {CallbackProgram(state) : state \in {"CODER", "DECODE", "SILENCE"}}
    ELSE IF t \in {"consumer1", "consumer2"}
    THEN {GetStreamBufferProgram(waits) : waits \in 0..MaxWaitsCounted}
    ELSE IF t = "reader" THEN {<<Lock("fft_mutex"), Unlock("fft_mutex")>>}
    ELSE IF t = "loader" THEN {<<Lock("audio_mutex"), Unlock("audio_mutex")>>}
    ELSE {<<Lock("coder_mutex"), Unlock("coder_mutex")>>}

\* mutant: the mutex stays with the thread that waits
OwnerDuringWait_Waiter(t) == t

\* stream_cv.wait_for(lock, ...) releases the mutex for as long as it blocks
OwnerDuringWait(t) == "free"

LkFrame ==
    UNCHANGED <<is_playing, live_coding_enabled, muted, track_ended,
                decoder_initialized, decoder, current_track, device_started,
                audio_mutex, stream_queue, stream_buffer, current_fft, coder, cb, lt,
                life, gsb, cb_count, gsb_stats, residual_of, fft_mutex, fft_pc,
                fft_read, call, dj, twin>>

\* the operation thread t stands at
LkAt(t, op) == lk.todo[t] # <<>> /\ Head(lk.todo[t]).op = op

\* thread t is done with the operation it stands at
LkAdvance(l, t) ==
    [l EXCEPT !.todo[t] = Tail(@),
              !.pc[t] = IF Tail(l.todo[t]) = <<>> THEN "idle" ELSE "running"]

\* thread t enters a call
LkCall(t, program) ==
    /\ lk.pc[t] = "idle"
    /\ lk' = [lk EXCEPT !.todo[t] = program, !.pc[t] = "running"]
    /\ LkFrame

\* std::mutex::lock: the thread goes on once the mutex is free
LkLock(t) ==
    /\ lk.pc[t] = "running"
    /\ LkAt(t, "lock")
    /\ lk.owner[Head(lk.todo[t]).m] = "free"
    /\ lk' = [LkAdvance(lk, t) EXCEPT !.owner[Head(lk.todo[t]).m] = t]
    /\ LkFrame

LkUnlock(t) ==
    /\ lk.pc[t] = "running"
    /\ LkAt(t, "unlock")
    /\ lk' = [LkAdvance(lk, t) EXCEPT !.owner[Head(lk.todo[t]).m] = "free"]
    /\ LkFrame

\* wait_for: the thread blocks, and takes the mutex again before it goes on
LkWait(t) ==
    /\ lk.pc[t] = "running"
    /\ LkAt(t, "wait")
    /\ lk' = [lk EXCEPT !.owner[Head(lk.todo[t]).m] = OwnerDuringWait(t),
                        !.pc[t] = "waiting",
                        !.todo[t] = <<Lock(Head(lk.todo[t]).m)>> \o Tail(@)]
    /\ LkFrame

\* the wait ends, by notify_one or by the timeout
LkWake(t) ==
    /\ lk.pc[t] = "waiting"
    /\ lk' = [lk EXCEPT !.pc[t] = "running"]
    /\ LkFrame

LkNext ==
    \E t \in Threads :
        \/ \E program \in Programs(t) : LkCall(t, program)
        \/ LkLock(t)
        \/ LkUnlock(t)
        \/ LkWait(t)
        \/ LkWake(t)

LkSpec == Init /\ [][LkNext]_vars

\* the recording specification: the voices, process and the capture buffer
RecordNext ==
    \/ \E id \in CoderIds, v \in CoderVolumes : CoderTrigger(id, v)
    \/ \E n \in CoderFrames : CoderProcess(n)
    \/ \E b \in BOOLEAN : CoderSetRecording(b)
    \/ CoderGetRecording

RecordSpec == Init /\ [][RecordNext]_vars

----------------------------------------------------------------------------
(* The claims *)

CbBeginStep == ~CbRunning /\ cb'.todo # <<>>
CbPublishStep == CbRunning /\ cb'.pushes = cb.pushes + 1
LtFailStep == lt.pc = "init" /\ lt'.pc = "idle"
LtCommitStep == lt.pc = "commit" /\ lt'.pc = "idle"
LastChunk == stream_queue[Len(stream_queue)]

\* C1: every get_stream_buffer(frames) call returns exactly frames * 2 samples,
\* whatever the queue and the residual hold, so the samples returned by all
\* calls so far are twice the frames they asked for
C1_ExactLength ==
    /\ \A c \in Consumers :
          gsb[c].pc = "returned" => Len(gsb[c].result) = 2 * gsb[c].frames
    /\ gsb_stats.samples = 2 * gsb_stats.frames

\* a second call that waited on an empty queue, timed out with a partly filled
\* residual and was padded
C1_Witness ==
    /\ gsb["c1"].pc = "returned"
    /\ gsb_stats.calls = 2
    /\ gsb["c1"].waits >= 1
    /\ gsb["c1"].padding > 0
    /\ gsb["c1"].padding < 2 * gsb["c1"].frames
    /\ ~IsSilent(gsb["c1"].result)

InProductionOrder ==
    \A i \in 1..(Len(stream_queue) - 1) : stream_queue[i][1] < stream_queue[i + 1][1]

\* C3: the stream queue never holds more than 10 chunks; a push onto a queue of
\* 10 evicts exactly the oldest chunk, and the other 9 and the new chunk stay
\* in production order
C3_BoundedDropOldest ==
    /\ [](Len(stream_queue) <= QueueCapacity /\ InProductionOrder)
    /\ [][(CbPublishStep /\ Len(stream_queue) = QueueCapacity) =>
             stream_queue' = Tail(stream_queue) \o <<cb.out>>]_vars

\* the eleventh chunk has been pushed with no consumer draining: chunk 1 is gone
C3_Witness ==
    /\ cb_count = QueueCapacity + 1
    /\ gsb_stats.calls = 0
    /\ Len(stream_queue) = QueueCapacity
    /\ stream_queue[1] = <<2, 2>>
    /\ LastChunk = <<QueueCapacity + 1, QueueCapacity + 1>>

\* C4: a callback selects CODER iff live coding is enabled, DECODE iff it is
\* disabled and a decoder is loaded and the engine is playing, SILENCE otherwise;
\* outside load_track the decoder changes only in a DECODE callback, so it is
\* never read while live coding is enabled
C4_ExactlyOneSource ==
    /\ [][CbBeginStep =>
            /\ cb'.state \in {"CODER", "DECODE", "SILENCE"}
            /\ (cb'.state = "CODER") = live_coding_enabled
            /\ (cb'.state = "DECODE") =
                   (~live_coding_enabled /\ decoder_initialized /\ is_playing)
            /\ (live_coding_enabled => decoder' = decoder)]_vars
    /\ [][(decoder' # decoder /\ lt.pc = "idle") =>
            (CbBeginStep /\ ~live_coding_enabled /\ cb'.state = "DECODE")]_vars

\* a CODER callback while a decoder is loaded at a read position the file has
\* not ended at, and the engine is playing
C4_Witness ==
    /\ CbRunning
    /\ cb.state = "CODER"
    /\ decoder_initialized
    /\ is_playing
    /\ decoder.pos = 2
    /\ ~IsSilent(cb.produced)

\* C5: every callback, in each of the three states, appends exactly one chunk of
\* frames * 2 samples to the stream queue and replaces the FFT snapshot exactly
\* once; the chunk of a SILENCE callback is all zeros; a callback that has begun
\* can always take its next step
C5_OneChunkPerCallback ==
    /\ CbAt("return") =>
          /\ cb.pushes = 1
          /\ cb.ffts = 1
          /\ Len(LastChunk) = 2 * cb.frames
          /\ LastChunk = cb.produced
          /\ current_fft = calculate_fft(cb.produced, cb.frames)
          /\ (cb.state = "SILENCE" => IsSilent(LastChunk))
    /\ Len(stream_queue) = cb_count - (IF CbRunning /\ cb.pushes = 0 THEN 1 ELSE 0)
    /\ CbRunning => ENABLED (CbPublish \/ CbFft \/ CbMute \/ CbReturn)

\* the third callback, in DECODE state after the track has ended
C5_Witness ==
    /\ CbAt("return")
    /\ cb.state = "DECODE"
    /\ cb.frames_read = 0
    /\ track_ended
    /\ cb_count = 3
    /\ Len(stream_queue) = 3

\* C6: the track-ended signal is raised exactly by a DECODE callback that reads
\* fewer frames than it asked for (the rest of the block is zero-filled); it is
\* cleared only by a load_track that succeeds
C6_TrackEndedSignal ==
    /\ [][(CbBeginStep /\ cb'.state = "DECODE" /\ cb'.frames_read < cb'.frames) =>
            /\ track_ended'
            /\ \A i \in (2 * cb'.frames_read + 1)..(2 * cb'.frames) : cb'.produced[i] = 0]_vars
    /\ [][(~track_ended /\ track_ended') =>
            (CbBeginStep /\ cb'.state = "DECODE" /\ cb'.frames_read < cb'.frames)]_vars
    /\ [][(track_ended /\ ~track_ended') => LtCommitStep]_vars

\* the signal is still raised after a load_track that failed (the decoder is
\* gone, the path of the ended track is still the current one) and a later
\* callback
C6_Witness ==
    /\ track_ended
    /\ ~decoder_initialized
    /\ lt.pc = "idle"
    /\ current_track = "a"
    /\ CbAt("return")
    /\ cb.state = "SILENCE"

\* C7: the callback never changes the current track or the file the decoder
\* reads; they change only inside load_track
C7_CallbackNeverAdvances ==
    [][(current_track' # current_track \/ decoder'.track # decoder.track) =>
          (lt.pc # "idle" /\ lt' # lt /\ cb' = cb)]_vars

\* a callback has run past the end of track a and the engine is still on it
C7_Witness ==
    /\ CbAt("return")
    /\ cb.state = "DECODE"
    /\ cb.frames_read = 0
    /\ track_ended
    /\ decoder = [track |-> "a", pos |-> FileFrames("a")]
    /\ current_track = "a"

\* C8 (as claimed): a load_track that fails leaves decoder_initialized, the
\* decoder, current_track and track_ended as they were before the call
C8_FailedLoadNoSideEffects ==
    [][LtFailStep =>
          <<decoder_initialized', decoder', current_track', track_ended'>> = lt.before]_vars

\* C9: load_track and the callback body exclude each other, and a callback in
\* DECODE state reads a decoder that is initialized
C9_MutualExclusion ==
    /\ CbRunning => (lt.pc = "idle" /\ audio_mutex = "callback")
    /\ lt.pc # "idle" => (~CbRunning /\ audio_mutex = "load_track")
    /\ (CbRunning /\ cb.state = "DECODE") =>
          (decoder_initialized /\ decoder.track \in DOMAIN Files)

\* load_track has torn down the decoder of a playing engine and has not
\* finished the new one; the device is running and no callback is in its body
C9_Witness ==
    /\ lt.pc = "init"
    /\ lt.before[1]
    /\ ~decoder_initialized
    /\ device_started
    /\ is_playing
    /\ ~live_coding_enabled
    /\ cb_count \in 1..(MaxCallbacks - 1)

\* C10: a get_stream_buffer call that waits eventually returns; when the queue
\* is still empty at its wake-up it returns, zero-padded, without a second wait
C10_EventuallyReturns ==
    /\ (gsb["c1"].pc = "waiting") ~> (gsb["c1"].pc = "returned")
    /\ [][(gsb["c1"].pc = "waiting" /\ gsb' # gsb /\ stream_queue = <<>>) =>
            /\ gsb'["c1"].pc = "returned"
            /\ gsb'["c1"].padding > 0
            /\ gsb'["c1"].waits = gsb["c1"].waits]_vars

\* a call returned padded after one wait, on an engine that was stopped after
\* it had delivered callbacks
C10_Witness ==
    /\ gsb["c1"].pc = "returned"
    /\ gsb["c1"].waits = 1
    /\ gsb["c1"].padding > 0
    /\ ~device_started
    /\ ~is_playing
    /\ life.pc = "idle"
    /\ cb_count >= 1

\* a get_stream_buffer call of consumer c stops draining and builds its result
GsbExtractStep(c) == gsb[c].pc # "returned" /\ gsb'[c].pc = "returned"

\* C11 (as claimed): a get_stream_buffer call returns a zero-padded result only
\* when the stream queue holds no chunk at the moment it stops draining
C11_PadsOnlyWhenQueueEmpty ==
    [][\A c \in Consumers :
          (GsbExtractStep(c) /\ gsb'[c].padding > 0) => stream_queue' = <<>>]_vars

\* C12 (as claimed): the samples a call of one consumer leaves in the residual
\* are never returned to another consumer: when a call of consumer c builds a
\* non-empty result from a non-empty residual, that residual was left by c
C12_ResidualPerConsumer ==
    [][\A c \in Consumers :
          (GsbExtractStep(c) /\ gsb'[c].frames > 0 /\ stream_buffer # <<>>) =>
              residual_of = c]_vars

\* the blocks a callback of the FFT specification can analyse: a frame of the
\* long file, or silence
FftBlocks == {<<k, k>> : k \in 0..StreamFileFrames}

\* a snapshot whose fields all come from the analysis of one block
Untorn(snapshot) ==
    \/ snapshot = InitialFft
    \/ \E b \in FftBlocks : snapshot = calculate_fft(b, 1)

\* C13: what get_fft_data returns is the initial snapshot or the analysis of one
\* callback block, never a mix of two, and get_fft_data cannot run while
\* calculate_fft is between its writes
C13_NoTornSnapshot ==
    /\ fft_read.done => Untorn(fft_read.data)
    /\ fft_mutex = "free" => Untorn(current_fft)
    /\ fft_pc # "idle" => (fft_mutex = "callback" /\ ~ENABLED GetFftData)

\* the reader holds the analysis of a sounding block while calculate_fft has
\* written the magnitudes of a silent block and not yet its bands
C13_Witness ==
    /\ fft_read.done
    /\ ~fft_read.data.silent
    /\ fft_pc = "bands"
    /\ cb.state = "SILENCE"
    /\ ~current_fft.silent
    /\ IsSilent(current_fft.mono)
    /\ ~Untorn(current_fft)

\* C14: a start() whose device cannot be started throws, the call is over (no
\* retry), and is_playing and the device are as before; is_playing becomes
\* true only in a start() whose device has started, and stop() makes it false
C14_StartRaisesWithoutPlaying ==
    /\ [](life.threw => life.pc = "idle")
    /\ [][(~life.threw /\ life'.threw) =>
            /\ is_playing' = is_playing
            /\ device_started' = device_started
            /\ life.pc = "idle"]_vars
    /\ [][(~is_playing /\ is_playing') =>
            (life.pc = "start_flag" /\ device_started /\ ~life.threw)]_vars
    /\ [][(life.pc = "idle" /\ life'.pc = "stop_device") => ~is_playing']_vars
    /\ [][(is_playing /\ ~is_playing') => life'.pc = "stop_device"]_vars

\* start() has thrown on an engine that was stopped after it had played: it is
\* still not playing, and callbacks have run
C14_Witness ==
    /\ life.threw
    /\ life.pc = "idle"
    /\ ~is_playing
    /\ ~device_started
    /\ cb_count >= 1
    /\ decoder_initialized

\* C15: trigger_sample with an id of the bank appends one voice (id, position 0,
\* volume) and changes nothing else; with an id that is not in the bank it
\* leaves the whole CoderMode state as it was
C15_TriggerSample ==
    call.op = "trigger_sample" =>
        IF call.args.id \in DOMAIN call.before.samples
        THEN coder = [call.before EXCEPT !.active_samples =
                         Append(@, [sample_id |-> call.args.id, position |-> 0,
                                    volume |-> call.args.volume])]
        ELSE coder = call.before

\* an unknown id was triggered while a voice was sounding and a sequence playing
C15_Witness ==
    /\ call.op = "trigger_sample"
    /\ call.args.id \notin DOMAIN call.before.samples
    /\ Len(coder.active_samples) = 1
    /\ coder.active_samples[1].position > 0
    /\ \E q \in DOMAIN coder.sequences : coder.sequences[q].playing

\* the length of the sample a voice plays (an id that is not in the bank plays
\* an empty sample)
SampleLength(bank, id) == IF id \in DOMAIN bank THEN Len(bank[id]) ELSE 0

\* the voices of `voices` that have frames left after n more, advanced by n
Survivors(voices, bank, n) ==
    LET alive == SelectSeq(voices,
                     LAMBDA v : v.position + n < SampleLength(bank, v.sample_id))
    IN [i \in 1..Len(alive) |-> [alive[i] EXCEPT !.position = @ + n]]

\* the events of playing sequences that fall into the window of n frames
Due(seqs, n) ==
    { <<q, i>> \in UNION { { <<r, j>> : j \in 1..Len(seqs[r].events) } : r \in DOMAIN seqs } :
        /\ seqs[q].playing
        /\ seqs[q].events[i].frame_offset >= seqs[q].current_frame
        /\ seqs[q].events[i].frame_offset < seqs[q].current_frame + n }

\* C16: process(n) keeps a voice at position p of a sample of length L, at
\* position p + n, when p + n < L, and removes it when p + n >= L; the voices
\* it leaves are those, in order, followed by the voices its sequences spawn;
\* every voice that was there before the call is left short of its sample's end
C16_VoiceLifetime ==
    call.op = "process" =>
        LET n    == call.args.frame_count
            kept == Survivors(call.before.active_samples, call.before.samples, n)
        IN /\ Len(coder.active_samples) = Len(kept) + Cardinality(Due(call.before.sequences, n))
           /\ SubSeq(coder.active_samples, 1, Len(kept)) = kept
           /\ \A i \in 1..Len(kept) :
                  coder.active_samples[i].position
                      < SampleLength(coder.samples, coder.active_samples[i].sample_id)
           /\ \A i \in (Len(kept) + 1)..Len(coder.active_samples) :
                  coder.active_samples[i].position = 0

\* of two voices on the same sample, process(2) removed the one that reached
\* the sample's length exactly and kept the other, two frames further
C16_Witness ==
    /\ call.op = "process"
    /\ call.args.frame_count = 2
    /\ Len(call.before.active_samples) = 2
    /\ call.before.active_samples[1].position + 2
           = SampleLength(call.before.samples, call.before.active_samples[1].sample_id)
    /\ call.before.active_samples[2].position = 0
    /\ Len(coder.active_samples) = 1
    /\ coder.active_samples[1].position = 2

\* what the voices k.. of `voices` contribute to frame i of the block
RECURSIVE VoiceSum(_, _, _, _)
VoiceSum(voices, k, bank, i) ==
    IF k > Len(voices) THEN 0
    ELSE LET v == voices[k]
         IN (IF v.position + i < SampleLength(bank, v.sample_id)
             THEN bank[v.sample_id][v.position + i + 1] * v.volume
             ELSE 0) + VoiceSum(voices, k + 1, bank, i)

\* C17: a trigger of an id that is already sounding adds a voice at position 0
\* and leaves the sounding ones where they are; process writes to the left and
\* to the right channel of frame i, before the clamp, the sum over the active
\* voices of sample[position + i] * volume
C17_AdditiveMix ==
    /\ (call.op = "trigger_sample" /\ call.args.id \in DOMAIN call.before.samples) =>
          /\ Len(coder.active_samples) = Len(call.before.active_samples) + 1
          /\ \A k \in 1..Len(call.before.active_samples) :
                 coder.active_samples[k] = call.before.active_samples[k]
          /\ coder.active_samples[Len(coder.active_samples)].position = 0
    /\ call.op = "process" =>
          /\ Len(call.mixed) = 2 * call.args.frame_count
          /\ \A i \in 0..(call.args.frame_count - 1) :
                 LET sum == VoiceSum(call.before.active_samples, 1, call.before.samples, i)
                 IN call.mixed[2 * i + 1] = sum /\ call.mixed[2 * i + 2] = sum

\* two voices on the same sample, at different positions, were mixed: in the
\* first frame they cancel, in the second only the younger one still sounds
C17_Witness ==
    /\ call.op = "process"
    /\ call.args.frame_count = 2
    /\ Len(call.before.active_samples) = 2
    /\ call.before.active_samples[1].sample_id = call.before.active_samples[2].sample_id
    /\ call.before.active_samples[1].position = 2
    /\ call.before.active_samples[2].position = 1
    /\ call.mixed = <<0, 0, 2, 2>>

\* C18: every one of the frame_count * 2 samples process returns lies in
\* [-1, 1], whatever the voices and their volumes add up to
C18_OutputClamped ==
    call.op = "process" =>
        /\ Len(call.out) = 2 * call.args.frame_count
        /\ \A j \in 1..Len(call.out) : -One <= call.out[j] /\ call.out[j] <= One

\* two voices at volume 2 added up to twice the range, in both directions
C18_Witness ==
    /\ call.op = "process"
    /\ call.mixed = <<2 * One, 2 * One, -(2 * One), -(2 * One)>>
    /\ call.out = <<One, One, -One, -One>>

\* how often event e occurs in `events`
Occurrences(events, e) == Cardinality({i \in 1..Len(events) : events[i] = e})

\* the events of sequence q in CoderMode state c (none when there is no such sequence)
EventsOf(c, q) == IF q \in DOMAIN c.sequences THEN c.sequences[q].events ELSE <<>>

\* C19: the events of every sequence are sorted ascending by frame_offset;
\* add_sequence_event leaves in the sequence its events and the new one, each
\* as often as it was added, creates a missing sequence stopped at cursor 0 and
\* leaves the cursor and the playing flag of an existing one; no other call
\* changes the events of a sequence or creates one
C19_EventsSorted ==
    /\ \A q \in DOMAIN coder.sequences : SortedByOffset(coder.sequences[q].events)
    /\ call.op = "add_sequence_event" =>
          LET q   == call.args.sequence_id
              e   == [frame_offset |-> call.args.frame_offset,
                      sample_id |-> call.args.sample_id, volume |-> call.args.volume]
              old == EventsOf(call.before, q)
              new == EventsOf(coder, q)
          IN /\ q \in DOMAIN coder.sequences
             /\ Len(new) = Len(old) + 1
             /\ \A i \in 1..Len(new) :
                    Occurrences(new, new[i]) =
                        Occurrences(old, new[i]) + (IF new[i] = e THEN 1 ELSE 0)
             /\ Occurrences(new, e) >= 1
             /\ IF q \in DOMAIN call.before.sequences
                THEN /\ coder.sequences[q].playing = call.before.sequences[q].playing
                     /\ coder.sequences[q].current_frame = call.before.sequences[q].current_frame
                ELSE /\ ~coder.sequences[q].playing
                     /\ coder.sequences[q].current_frame = 0
    /\ call.op \in {"trigger_sample", "play_sequence", "stop_sequence", "process"} =>
          /\ DOMAIN coder.sequences = DOMAIN call.before.sequences
          /\ \A q \in DOMAIN coder.sequences : EventsOf(coder, q) = EventsOf(call.before, q)

\* an event at offset 0 was added to a playing sequence whose only event is at
\* offset 1 and whose cursor process has moved: the new event comes first
C19_Witness ==
    /\ call.op = "add_sequence_event"
    /\ call.args.frame_offset = 0
    /\ call.args.sequence_id \in DOMAIN call.before.sequences
    /\ Len(EventsOf(call.before, call.args.sequence_id)) = 1
    /\ EventsOf(call.before, call.args.sequence_id)[1].frame_offset = 1
    /\ call.before.sequences[call.args.sequence_id].playing
    /\ call.before.sequences[call.args.sequence_id].current_frame > 0
    /\ EventsOf(coder, call.args.sequence_id)[1].frame_offset = 0
    /\ EventsOf(coder, call.args.sequence_id)[2].frame_offset = 1

\* C20: play_sequence on an existing sequence sets playing and puts the cursor
\* at 0, stop_sequence clears playing and leaves cursor and events; on an id
\* with no sequence both leave the state as it was
C20_PlayStop ==
    /\ call.op = "play_sequence" =>
          LET q == call.args.sequence_id
          IN IF q \in DOMAIN call.before.sequences
             THEN coder = [call.before EXCEPT !.sequences[q].playing = TRUE,
                                              !.sequences[q].current_frame = 0]
             ELSE coder = call.before
    /\ call.op = "stop_sequence" =>
          LET q == call.args.sequence_id
          IN IF q \in DOMAIN call.before.sequences
             THEN coder = [call.before EXCEPT !.sequences[q].playing = FALSE]
             ELSE coder = call.before

\* play_sequence on a sequence that was playing, with its cursor moved on
C20_Witness ==
    /\ call.op = "play_sequence"
    /\ call.args.sequence_id \in DOMAIN call.before.sequences
    /\ call.before.sequences[call.args.sequence_id].playing
    /\ call.before.sequences[call.args.sequence_id].current_frame > 0
    /\ coder.sequences[call.args.sequence_id].current_frame = 0
    /\ coder.sequences[call.args.sequence_id].events # <<>>

\* C21: set_recording(true) empties the capture buffer, also when recording is
\* on; process appends its frame_count * 2 samples as mixed, before the clamp,
\* while recording is on and nothing while it is off; set_recording(false)
\* and every other call leave the buffer; get_recording returns the buffer
C21_Recording ==
    /\ call.op = "set_recording" =>
          /\ coder.recording = call.args.record
          /\ coder.recorded_buffer =
                 IF call.args.record THEN <<>> ELSE call.before.recorded_buffer
    /\ call.op = "process" =>
          /\ Len(call.mixed) = 2 * call.args.frame_count
          /\ coder.recorded_buffer =
                 IF call.before.recording
                 THEN call.before.recorded_buffer \o call.mixed
                 ELSE call.before.recorded_buffer
          /\ coder.recording = call.before.recording
    /\ call.op = "trigger_sample" =>
          /\ coder.recorded_buffer = call.before.recorded_buffer
          /\ coder.recording = call.before.recording
    /\ call.op = "get_recording" =>
          /\ call.out = coder.recorded_buffer
          /\ coder = call.before

\* recording was started again while a capture that holds samples beyond the
\* clamp range was running
C21_Witness ==
    /\ call.op = "set_recording"
    /\ call.args.record
    /\ call.before.recording
    /\ \E j \in 1..Len(call.before.recorded_buffer) : call.before.recorded_buffer[j] > One
    /\ coder.recorded_buffer = <<>>
    /\ coder.active_samples # <<>>

\* C22: a crossfade becomes active only by trigger_crossfade called with a cue
\* pending; cue_next_track leaves is_crossfading, the progress and the fade
\* frames; trigger_crossfade with no cue pending changes nothing, and with one
\* it sets is_crossfading, progress 0 and fade frames = duration * sample rate
C22_TriggerCrossfade ==
    call.op \notin {"none"} =>
       /\ dj.is_crossfading /\ ~call.before.is_crossfading =>
             call.op = "trigger_crossfade" /\ call.before.next_cue.active
       /\ call.op = "cue_next_track" =>
             /\ dj.is_crossfading = call.before.is_crossfading
             /\ dj.crossfade_progress = call.before.crossfade_progress
             /\ dj.current_fade_frames = call.before.current_fade_frames
       /\ call.op = "trigger_crossfade" /\ ~call.before.next_cue.active =>
             dj = call.before
       /\ call.op = "trigger_crossfade" /\ call.before.next_cue.active =>
             /\ dj.is_crossfading
             /\ dj.crossfade_progress = 0
             /\ 2 * dj.current_fade_frames <= dj.crossfade_duration * dj.sample_rate
             /\ dj.crossfade_duration * dj.sample_rate < 2 * (dj.current_fade_frames + 1)
             /\ [dj EXCEPT !.is_crossfading = call.before.is_crossfading,
                           !.crossfade_progress = call.before.crossfade_progress,
                           !.current_fade_frames = call.before.current_fade_frames]
                   = call.before

\* a crossfade under way is triggered again, with a duration that is not a
\* whole number of frames
C22_Witness ==
    /\ call.op = "trigger_crossfade"
    /\ call.before.next_cue.active
    /\ call.before.is_crossfading
    /\ call.before.crossfade_progress > 0
    /\ dj.crossfade_duration = 3
    /\ dj.current_fade_frames = 1

\* C23: should_auto_crossfade returns true exactly when a cue is pending, no
\* crossfade is running and current_position has reached track_length minus
\* the fade frames, also for a track shorter than the fade; it changes nothing
C23_ShouldAutoCrossfade ==
    call.op = "should_auto_crossfade" =>
       /\ call.out <=>
             /\ call.before.next_cue.active
             /\ ~call.before.is_crossfading
             /\ call.args.current_position >=
                   call.args.track_length
                     - (call.before.crossfade_duration * call.before.sample_rate) \div 2
       /\ dj = call.before

\* C24: the progress applied to successive frames of a crossfade never goes
\* down and stays in [0, 1]; the crossfade is active only while fewer than
\* fade_frames frames were processed, and it ends with progress / fade_frames
\* exactly 1
C24_ProgressReachesOne ==
    /\ dj.is_crossfading => dj.crossfade_progress < dj.current_fade_frames
    /\ call.op = "process_crossfade" =>
          /\ \A j \in 1..Len(call.out.applied) :
                /\ 0 <= call.out.applied[j].num
                /\ call.out.applied[j].num <= call.out.applied[j].den
                /\ j > 1 => call.out.applied[j - 1].num * call.out.applied[j].den
                               <= call.out.applied[j].num * call.out.applied[j - 1].den
          /\ call.before.is_crossfading /\ ~dj.is_crossfading =>
                dj.crossfade_progress = dj.current_fade_frames

\* this process_crossfade call processes the frame that ends the crossfade
Completing ==
    /\ call.op = "process_crossfade"
    /\ call.before.is_crossfading
    /\ call.args.frame_count >= 1
    /\ call.before.crossfade_progress + call.args.frame_count
          >= call.before.current_fade_frames

\* C25: the process_crossfade call that completes a crossfade leaves
\* is_crossfading false, the cue not pending and current_pos 0; a call that
\* does not complete it leaves current_pos and the cue, and a call made with
\* no crossfade active leaves the object and the audio block too
C25_CompletionEffects ==
    call.op = "process_crossfade" =>
       /\ Completing =>
             /\ ~dj.is_crossfading
             /\ ~dj.next_cue.active
             /\ call.out.current_pos = 0
       /\ ~Completing =>
             /\ call.out.current_pos = call.args.current_pos
             /\ dj.next_cue = call.before.next_cue
             /\ dj.is_crossfading = call.before.is_crossfading
       /\ ~call.before.is_crossfading =>
             /\ dj = call.before
             /\ call.out.current_audio = call.args.current_audio

\* a crossfade of three frames completes in a call that began at its second frame
C25_Witness ==
    /\ Completing
    /\ call.before.current_fade_frames = 3
    /\ call.before.crossfade_progress = 1
    /\ call.before.next_cue.active
    /\ call.args.current_pos = 5
    /\ call.out.current_pos = 0
    /\ ~dj.next_cue.active

\* C26: set_hot_cue and clear_hot_cue with a slot in 0..7 change that slot
\* only (clear only its active flag) and with another slot change nothing;
\* get_hot_cue returns the slot, or an inactive default cue outside 0..7
C26_HotCueSlots ==
    /\ call.op = "set_hot_cue" =>
          IF call.args.slot \in 0..7
          THEN /\ dj.hot_cues[call.args.slot] =
                     [ position |-> call.args.position, label |-> call.args.label,
                       active |-> TRUE ]
               /\ \A i \in 0..7 \ {call.args.slot} : dj.hot_cues[i] = call.before.hot_cues[i]
               /\ [dj EXCEPT !.hot_cues = call.before.hot_cues] = call.before
          ELSE dj = call.before
    /\ call.op = "clear_hot_cue" =>
          IF call.args.slot \in 0..7
          THEN /\ dj.hot_cues[call.args.slot] =
                     [call.before.hot_cues[call.args.slot] EXCEPT !.active = FALSE]
               /\ \A i \in 0..7 \ {call.args.slot} : dj.hot_cues[i] = call.before.hot_cues[i]
               /\ [dj EXCEPT !.hot_cues = call.before.hot_cues] = call.before
          ELSE dj = call.before
    /\ call.op = "get_hot_cue" =>
          /\ dj = call.before
          /\ IF call.args.slot \in 0..7
             THEN call.out = dj.hot_cues[call.args.slot]
             ELSE ~call.out.active /\ call.out.position = 0

\* slot 7 is cleared while slot 0 holds an active cue
C26_Witness ==
    /\ call.op = "clear_hot_cue"
    /\ call.args.slot = 7
    /\ call.before.hot_cues[7].active
    /\ dj.hot_cues[7].position = 5
    /\ dj.hot_cues[0].active

\* C27: a pending cue stops being pending only by clear_cue or by the
\* process_crossfade call that completes the crossfade, and the hot cue of
\* slot i becomes inactive only by clear_hot_cue(i)
C27_CuesPersist ==
    call.op \notin {"none"} =>
       /\ call.before.next_cue.active /\ ~dj.next_cue.active =>
             \/ call.op = "clear_cue"
             \/ Completing
       /\ \A i \in 0..7 :
             call.before.hot_cues[i].active /\ ~dj.hot_cues[i].active =>
                call.op = "clear_hot_cue" /\ call.args.slot = i

\* a process_crossfade call that does not complete the crossfade, made with
\* a cue pending and the hot cues of slots 0 and 7 active
C27_Witness ==
    /\ call.op = "process_crossfade"
    /\ call.args.frame_count = 2
    /\ ~Completing
    /\ call.before.is_crossfading
    /\ dj.next_cue.active
    /\ dj.hot_cues[0].active
    /\ dj.hot_cues[7].active

\* C28: calculate_bands averages three ranges of bins that are each not
\* empty, for every number of bins, so each band is a defined value and
\* magnitudes that are all equal give bass == mid == treble
C28_BandsOfEqualMagnitudes ==
    call.op = "calculate_bands" =>
       /\ ~call.out.bass.nan
       /\ ~call.out.mid.nan
       /\ ~call.out.treble.nan
       /\ (\A i, j \in DOMAIN call.args.magnitudes :
              call.args.magnitudes[i] = call.args.magnitudes[j]) =>
             /\ FloatEq(call.out.bass, call.out.mid)
             /\ FloatEq(call.out.mid, call.out.treble)

\* C29: for every block size the stored FFTData has 64 magnitudes, and every
\* magnitude, bass, mid, treble and energy is a number of [0, 1]
C29_SnapshotInUnitRange ==
    call.op = "calculate_fft" =>
       /\ Len(call.out.magnitudes) = 64
       /\ \A j \in DOMAIN call.out.magnitudes : InUnit(call.out.magnitudes[j])
       /\ InUnit(call.out.bass)
       /\ InUnit(call.out.mid)
       /\ InUnit(call.out.treble)
       /\ InUnit(call.out.energy)

\* the chunks of a queue, joined in queue order
RECURSIVE Flatten(_)
Flatten(q) == IF q = <<>> THEN <<>> ELSE Head(q) \o Flatten(Tail(q))

\* the samples the consumer has still to get: the residual, then the queue
Pending == stream_buffer \o Flatten(stream_queue)

\* C30: with one consumer, a push appends the callback's chunk behind all
\* pending samples and evicts at most the oldest queued chunk of a full queue;
\* every step of a get_stream_buffer call keeps the pending samples in order,
\* and what it returns, less the padding that ends it, is exactly their head:
\* nothing is duplicated, reordered or lost, and the residual comes first
C30_StreamConserved ==
    [][ /\ CbPublishStep =>
             \/ Pending' = Pending \o cb.out
             \/ /\ Len(stream_queue) = QueueCapacity
                /\ Pending' = stream_buffer \o Flatten(Tail(stream_queue)) \o cb.out
        /\ ~CbPublishStep /\ ~GsbExtractStep("c1") => Pending' = Pending
        /\ GsbExtractStep("c1") =>
             LET returned == Take(gsb'["c1"].result,
                                  Len(gsb'["c1"].result) - gsb'["c1"].padding)
             IN  /\ returned \o Pending' = Pending
                 /\ gsb'["c1"].result = returned \o Zeros(gsb'["c1"].padding)
      ]_vars

\* after the first chunk was evicted, a call for 1 frame took half of chunk 2
\* and left the other half; the next call, for 3 frames, returns that half
\* first and then chunk 3
C30_Witness ==
    /\ cb_count = QueueCapacity + 1
    /\ gsb_stats.calls = 2
    /\ gsb_stats.frames = 4
    /\ gsb["c1"].pc = "returned"
    /\ gsb["c1"].result = <<4, 4, 5, 5, 6, 6>>
    /\ stream_buffer = <<>>
    /\ Len(stream_queue) = 8

\* C37: a running crossfade implies a pending cue
C37_CrossfadeImpliesCue == dj.is_crossfading => dj.next_cue.active

C39_NoRaceOnCurrentTrack ==
    call.op = "get_current_track" =>
       /\ ~call.before.writing
       /\ call.out = call.before.current_track

\* the voices behind the first k of `voices`
VoicesAfter(voices, k) == SubSeq(voices, k + 1, Len(voices))

\* how many of `voices` are fresh voices on this sample at this volume
FreshVoices(voices, sample_id, volume) ==
    Cardinality({ i \in 1..Len(voices) :
                    voices[i] = [sample_id |-> sample_id, position |-> 0, volume |-> volume] })

C35_BankIdsUnchanged ==
    call.op \in {"trigger_sample", "add_sequence_event", "play_sequence",
                 "stop_sequence", "process"} =>
       DOMAIN coder.samples = DOMAIN call.before.samples

\* C32: every process(n) moves playback_frame on by n, and back to
\* start_frame only with the loop active and end_frame reached; set_loop
\* stores the region and activates it; toggle_loop flips the active flag only
C32_LoopCounter ==
    /\ call.op = "process" =>
          \/ coder.playback_frame = call.before.playback_frame + call.args.frame_count
          \/ /\ call.before.current_loop.active
             /\ call.before.playback_frame + call.args.frame_count
                   >= call.before.current_loop.end_frame
             /\ coder.playback_frame = call.before.current_loop.start_frame
    /\ call.op = "set_loop" =>
          coder = [call.before EXCEPT !.current_loop =
                      [start_frame |-> call.args.start_frame,
                       end_frame |-> call.args.end_frame, active |-> TRUE]]
    /\ call.op = "toggle_loop" =>
          /\ coder.current_loop.active = ~call.before.current_loop.active
          /\ [coder EXCEPT !.current_loop = call.before.current_loop] = call.before

\* C33: load_sample replaces the data of its id and leaves the voices; the
\* next process mixes, for each voice at position p, the data its id has
\* then from p on, keeps the voice when frames of that data are left and
\* removes it otherwise, also when the data is shorter than p
C33_ReplacedSampleHeard ==
    /\ call.op = "load_sample" =>
          /\ coder.samples[call.args.id] = call.args.data
          /\ \A id \in DOMAIN call.before.samples \ {call.args.id} :
                coder.samples[id] = call.before.samples[id]
          /\ coder.active_samples = call.before.active_samples
    /\ call.op = "process" =>
          LET n == call.args.frame_count
              voices == call.before.active_samples
              bank == call.before.samples
          IN  /\ \A i \in 0..(n - 1) :
                    call.mixed[2 * i + 1] =
                       VoiceSum(voices, 1, bank, i)
              /\ coder.active_samples = Survivors(voices, bank, n)
              /\ \A k \in 1..Len(coder.active_samples) :
                    coder.active_samples[k].position
                       < Len(coder.samples[coder.active_samples[k].sample_id])

\* a voice had played 2 frames of the square wave when its sample was
\* replaced by 4 frames of another value: process(2) mixes frames 2 and 3 of
\* the new data and removes the voice
C33_Witness ==
    /\ call.op = "process"
    /\ call.args.frame_count = 2
    /\ call.before.samples[3] = <<2, 2, 2, 2>>
    /\ call.before.active_samples = <<[sample_id |-> 3, position |-> 2, volume |-> 2]>>
    /\ call.mixed = <<4, 4, 4, 4>>
    /\ coder.active_samples = <<>>

\* C36: a callback that begins while live coding is disabled (DECODE or
\* SILENCE) leaves the whole CoderMode state as it is; outside a callback's
\* begin the CoderMode state changes only by a trigger appending a voice at
\* position 0, every voice already there being kept; and a callback that
\* begins with live coding enabled sounds every voice from where it stands, so
\* a voice kept at position 0 sounds from its first frame
C36_DisabledLeavesCoder ==
    [][ /\ (CbBeginStep /\ ~live_coding_enabled) =>
              /\ cb'.state \in {"DECODE", "SILENCE"}
              /\ coder' = coder
        /\ ~CbBeginStep =>
              \/ coder' = coder
              \/ \E id \in DOMAIN coder.samples, volume \in Volumes :
                     coder' = [coder EXCEPT !.active_samples =
                                  Append(@, [sample_id |-> id, position |-> 0,
                                             volume |-> volume])]
        /\ (CbBeginStep /\ live_coding_enabled) =>
              /\ cb'.state = "CODER"
              /\ \A i \in 0..(cb'.frames - 1) :
                     LET sum == ClampSample(VoiceSum(coder.active_samples, 1,
                                                     coder.samples, i))
                     IN cb'.produced[2 * i + 1] = sum /\ cb'.produced[2 * i + 2] = sum
      ]_vars

\* a callback that began with live coding disabled has done its work, and the
\* voice triggered meanwhile is still waiting at position 0
C36_Witness ==
    /\ ~live_coding_enabled
    /\ CbAt("return")
    /\ cb.state \in {"DECODE", "SILENCE"}
    /\ coder.active_samples # <<>>
    /\ coder.active_samples[1].position = 0

\* what of a run the mute flag must not reach: the stream queue and the
\* residual, the last get_stream_buffer result, the FFT snapshot, the
\* track-ended signal, the decoder and the CoderMode state
Observed(r) ==
    [ stream_queue |-> r.stream_queue, stream_buffer |-> r.stream_buffer,
      result |-> r.gsb.result, waiting |-> r.gsb.pc, current_fft |-> r.current_fft,
      track_ended |-> r.track_ended, decoder |-> r.decoder,
      decoder_initialized |-> r.decoder_initialized, coder |-> r.coder,
      produced |-> r.cb.produced ]

\* C40: two runs given the same callbacks, loads, mode switches, CoderMode
\* commands and get_stream_buffer calls, but different set_muted histories,
\* agree after every step on the stream queue, the get_stream_buffer results,
\* the FFT snapshot, the track-ended signal, the decoder read position and the
\* CoderMode state
C40_MuteNonInterference == Observed(twin[1]) = Observed(twin[2])

\* the callback of the muted run is about to hand the device another block
\* than the callback of the run that never mutes, while both streamed,
\* analysed and handed out the same audible one
C40_Witness ==
    /\ twin[1].cb.todo = <<"return">>
    /\ twin[2].cb.todo = <<"return">>
    /\ twin[1].cb.out # twin[2].cb.out
    /\ twin[2].cb.mute_applied
    /\ ~twin[1].current_fft.silent
    /\ twin[1].gsb.result # <<>>
    /\ ~IsSilent(twin[1].gsb.result)
    /\ twin[1].decoder.pos > 0

\* thread t stands at a lock of a mutex another thread holds
Blocked(t) ==
    /\ lk.pc[t] = "running"
    /\ LkAt(t, "lock")
    /\ lk.owner[Head(lk.todo[t]).m] # "free"

\* the thread that holds the mutex t is blocked on
Holder(t) == lk.owner[Head(lk.todo[t]).m]

\* following the holders from t for k steps comes back to u
RECURSIVE WaitsOn(_, _, _)
WaitsOn(t, u, k) ==
    /\ k > 0
    /\ Blocked(t)
    /\ \/ Holder(t) = u
       \/ WaitsOn(Holder(t), u, k - 1)

\* C34: no cyclic lock wait is reachable: no thread waits, through the holders
\* of the mutexes, on itself, while any thread is inside a call some thread
\* can take its next step, and every mutex that is held is held by a thread
\* that is not inside a wait; whoever holds a mutex the callback is blocked on
\* is itself not blocked, and so runs on to its unlock; a consumer inside
\* get_stream_buffer's wait holds no mutex, so it keeps the callback neither
\* from stream_mutex nor from completing
C34_DeadlockFree ==
    /\ \A t \in Threads : ~WaitsOn(t, t, Cardinality(Threads))
    /\ Blocked("callback") =>
          /\ Holder("callback") \in Threads \ {"callback"}
          /\ ~Blocked(Holder("callback"))
    /\ (\E t \in Threads : lk.pc[t] # "idle") =>
          \E t \in Threads : lk.pc[t] # "idle" /\ ~Blocked(t)
    /\ \A t \in Threads : lk.pc[t] = "waiting" =>
          \A m \in Mutexes : lk.owner[m] # t
    /\ \A m \in Mutexes : lk.owner[m] # "free" => lk.pc[lk.owner[m]] = "running"

\* while one consumer is inside the wait, the callback holds audio_mutex and
\* stream_mutex on its way through add_to_stream_queue, and the other consumer
\* and the load_track caller are blocked behind it
C34_Witness ==
    /\ lk.pc["consumer1"] = "waiting"
    /\ lk.owner["audio_mutex"] = "callback"
    /\ lk.owner["stream_mutex"] = "callback"
    /\ Blocked("consumer2")
    /\ Blocked("loader")

====
